---- MODULE Spec2Model ----
(***************************************************************************)
(* Model of arjungandhi/contacts: the Google provider's OAuth2/PKCE        *)
(* authorization flow (AuthorizeWithPKCE), its provider operations         *)
(* (FetchContacts, WriteContact, DeleteContact) and the file-backed        *)
(* ContactManager store (GetContact, ListContacts, WriteContact,           *)
(* DeleteContact, SyncContacts).                                           *)
(***************************************************************************)
EXTENDS Integers, Sequences, FiniteSets, TLC

VARIABLES
    \* ---- GoogleContactsProvider ----
    config,      \* g.config # nil
    token,       \* g.token: NoToken or [refresh, access, expired]
    credsFile,   \* contents of google_creds.json
    issued,      \* number of tokens the token endpoint has issued so far
    syncToken,   \* g.syncToken
    syncTokenFile, \* contents of google_sync_token.txt (<<>>: no file)
    fetch,       \* one FetchContacts call, page by page
    \* ---- one AuthorizeWithPKCE flow ----
    state,       \* the anti-forgery state generated at flow start ("" = no flow)
    server,      \* "none" | "starting" | "listening" | "failed" | "closed"
    resultCh,    \* the buffered channel make(chan error, 1)
    handlers,    \* one record per /callback handler invocation
    srvSend,     \* ListenAndServe goroutine is at `resultCh <- server error`
    ctxDone,     \* ctx has been cancelled
    watcher,     \* cancellation goroutine: "idle" | "waiting" | "shutdown" | "done"
    timers,      \* pending `go func(){ Sleep; server.Shutdown }` goroutines
    received,    \* values the caller took from the channel
    nSent,       \* number of values that entered the channel
    \* ---- ContactManager ----
    provider,    \* cm.provider # nil
    files,       \* storage directory: uid -> card stored in <uid>.vcf
    now,         \* clock (time.Now, second precision)
    uuids,       \* number of uuid.New() calls so far
    remote,      \* the provider's contacts (People API persons)
    last         \* outcome of the last store operation

authVars == <<state, server, resultCh, handlers, srvSend, ctxDone, watcher,
              timers, received, nSent>>
fetchVars == <<syncToken, syncTokenFile, fetch>>
provVars == <<config, token, credsFile, issued, syncToken, syncTokenFile, fetch>>
storeVars == <<provider, files, now, uuids, remote, last>>
vars == <<config, token, credsFile, issued, syncToken, syncTokenFile, fetch,
          state, server, resultCh, handlers, srvSend, ctxDone, watcher, timers,
          received, nSent, provider, files, now, uuids, remote, last>>

----------------------------------------------------------------------------
\* Bounds of the model.
MaxCallbacks == 2    \* callback requests per flow
MaxDenied == 3       \* callback requests per flow when all are denials
MaxExchanges == 2    \* successful code exchanges per flow
MaxTokens == 2       \* tokens issued up to the end of the store's operations
MaxClock == 2        \* clock ticks
MaxUUID == 1         \* uuid.New() calls
MaxPages == 2        \* page tokens the People API hands out
MaxRequests == MaxPages + 1   \* requests of one FetchContacts call

States == {"s1", "s2"}          \* values of the `state` query parameter
NoToken == [refresh |-> 0, access |-> 0, expired |-> TRUE, set |-> FALSE]
NoCard == [none |-> TRUE]

----------------------------------------------------------------------------
\* GoogleCredentials / credentials file

\* LoadCredentials followed by the two assignments and SaveCredentials:
\* only the token pair is replaced.
MergeTokens(creds, tok) ==
    [creds EXCEPT !.refresh = tok.refresh, !.access = tok.access]

\* os.WriteFile opens the file with O_CREATE|O_TRUNC and writes afterwards: it
\* succeeds, fails in the open (nothing is touched) or fails in the write or
\* the close (the file is left empty or cut short).
WriteOutcomes == {"ok", "open_failed", "write_failed"}

\* google_creds.json when it is not the JSON of any credentials: without
\* bytes, as the truncating open leaves it, or with bytes that do not parse
\* (a write cut short, or a write over the longer bytes of another write).
EmptyCredsFile == [empty |-> TRUE]
GarbledCredsFile == [garbled |-> TRUE]

\* SaveCredentials(creds) on the file when no other goroutine has it open; w
\* is how os.WriteFile ends.  The callers of this operator open the file with
\* O_TRUNC before they write again, so a file cut short and an empty one are
\* not told apart.
SaveCredentials(file, creds, w) ==
    IF w = "ok" THEN creds
    ELSE IF w = "write_failed" THEN EmptyCredsFile
    ELSE file

\* LoadCredentials returns without error: os.ReadFile succeeded (readOk) and
\* json.Unmarshal accepted the contents.
LoadCredentialsOk(file, readOk) ==
    readOk /\ file \notin {EmptyCredsFile, GarbledCredsFile}

\* Initialize: g.token is built from the stored pair, already expired.
InitialToken(creds) ==
    IF creds.refresh # 0
    THEN [refresh |-> creds.refresh, access |-> creds.access,
          expired |-> TRUE, set |-> TRUE]
    ELSE NoToken

Initialize ==
    /\ ~config
    /\ IF LoadCredentialsOk(credsFile, TRUE)
       THEN /\ config' = TRUE
            /\ token' = InitialToken(credsFile)
            /\ syncToken' = syncTokenFile
       ELSE UNCHANGED <<config, token, syncToken>>
    /\ UNCHANGED <<credsFile, issued, syncTokenFile, fetch>>
    /\ UNCHANGED authVars
    /\ UNCHANGED storeVars

\* SaveSyncToken: the only writer of the sync cursor and of its file.  The
\* cursor in memory is set first; os.WriteFile then succeeds, fails in the
\* open (the file is as it was) or fails past the open (the file is cut
\* short: of a cursor of one character nothing is left).  No code path of the
\* program calls it.
SaveSyncToken(tok, w) ==
    /\ syncToken' = tok
    /\ syncTokenFile' = IF w = "ok" THEN tok
                        ELSE IF w = "write_failed" THEN <<>>
                        ELSE syncTokenFile

----------------------------------------------------------------------------
\* AuthorizeWithPKCE

\* A /callback request: whether `error` and `code` are non-empty, and `state`.
Requests == [error : BOOLEAN, code : BOOLEAN, state : States \cup {""}]

\* The handler's checks before the code exchange, in their order: what it
\* sends on resultCh when one fails, "pass" when it goes on to the exchange.
HandlerChecksNoStateCheck(req, st) ==
    IF req.error THEN "provider_error"
    ELSE IF ~req.code THEN "no_code"
    ELSE "pass"

HandlerChecks(req, st) ==
    IF req.error THEN "provider_error"
    ELSE IF ~req.code THEN "no_code"
    ELSE IF req.state # st THEN "state_mismatch"
    ELSE "pass"

\* The handler's local `creds` before LoadCredentials has returned.
NoCreds == [client_id |-> "", client_secret |-> "", refresh |-> 0,
            access |-> 0, email |-> ""]

\* What the handler hands to SaveCredentials: the credentials it loaded, with
\* the token pair its exchange returned.
CredsAfterCallback(creds, tok) == MergeTokens(creds, tok)

\* The flow starts: state is generated, the server and the cancellation
\* watcher goroutines are spawned, resultCh is returned to the caller.
AuthorizeWithPKCE ==
    /\ config
    /\ server = "none"
    /\ \E s \in States : state' = s
    /\ server' = "starting"
    /\ watcher' = "waiting"
    /\ UNCHANGED <<resultCh, handlers, srvSend, ctxDone, timers, received, nSent>>
    /\ UNCHANGED provVars
    /\ UNCHANGED storeVars

\* go func() { server.ListenAndServe() ... }: binds the port, or fails and
\* goes on to send the server error.
ListenAndServe ==
    /\ server = "starting"
    /\ \E ok \in BOOLEAN :
         IF ok
         THEN server' = "listening" /\ UNCHANGED srvSend
         ELSE server' = "failed" /\ srvSend' = TRUE
    /\ UNCHANGED <<state, resultCh, handlers, ctxDone, watcher, timers,
                   received, nSent>>
    /\ UNCHANGED provVars
    /\ UNCHANGED storeVars

\* resultCh <- fmt.Errorf("server error: ...") (a blocking send).
ServerErrorSend ==
    /\ srvSend
    /\ Len(resultCh) < 1
    /\ resultCh' = Append(resultCh, "server_error")
    /\ nSent' = nSent + 1
    /\ srvSend' = FALSE
    /\ UNCHANGED <<state, server, handlers, ctxDone, watcher, timers, received>>
    /\ UNCHANGED provVars
    /\ UNCHANGED storeVars

\* The /callback handler from the request to the call of g.config.Exchange:
\* the three checks run, and the handler either goes on to send the failure
\* or waits in the exchange.  Every request has its own goroutine.
CallbackOf(reqs) ==
    /\ server = "listening"
    /\ \E req \in reqs :
         LET res == HandlerChecks(req, state)
         IN handlers' = Append(handlers,
                 [rstate |-> req.state,
                  val |-> IF res = "pass" THEN "" ELSE res,
                  pc |-> IF res = "pass" THEN "exchange" ELSE "send",
                  exchanged |-> res = "pass",
                  tok |-> NoToken,
                  creds |-> NoCreds])
    /\ UNCHANGED <<state, server, resultCh, srvSend, ctxDone, watcher, timers,
                   received, nSent>>
    /\ UNCHANGED provVars
    /\ UNCHANGED storeVars

\* Any callback request.
Callback ==
    /\ Len(handlers) < MaxCallbacks
    /\ CallbackOf(Requests)

\* A callback request of a user who denied consent: an error parameter and
\* no code.
DeniedRequests == {req \in Requests : req.error /\ ~req.code}
DeniedCallback ==
    /\ Len(handlers) < MaxDenied
    /\ CallbackOf(DeniedRequests)

\* g.config.Exchange(ctx, code, verifier) returns: an error (always, once
\* ctx is cancelled), or the token pair the token endpoint issued.
HandlerExchange ==
    /\ \E i \in 1..Len(handlers), exOk \in BOOLEAN :
         /\ handlers[i].pc = "exchange"
         /\ IF exOk /\ ~ctxDone
            THEN /\ issued <= MaxExchanges
                 /\ issued' = issued + 1
                 /\ handlers' = [handlers EXCEPT
                       ![i].tok = [refresh |-> issued + 1, access |-> issued + 1,
                                   expired |-> FALSE, set |-> TRUE],
                       ![i].pc = "settoken"]
            ELSE /\ issued' = issued
                 /\ handlers' = [handlers EXCEPT ![i].val = "exchange_failed",
                                                 ![i].pc = "send"]
    /\ UNCHANGED <<config, token, credsFile>>
    /\ UNCHANGED <<state, server, resultCh, srvSend, ctxDone, watcher, timers,
                   received, nSent>>
    /\ UNCHANGED fetchVars
    /\ UNCHANGED storeVars

\* g.token = token: a write without a lock; of two handlers that write, either
\* may be the last.
HandlerSetToken ==
    /\ \E i \in 1..Len(handlers) :
         /\ handlers[i].pc = "settoken"
         /\ token' = handlers[i].tok
         /\ handlers' = [handlers EXCEPT ![i].pc = "load"]
    /\ UNCHANGED <<config, credsFile, issued>>
    /\ UNCHANGED <<state, server, resultCh, srvSend, ctxDone, watcher, timers,
                   received, nSent>>
    /\ UNCHANGED fetchVars
    /\ UNCHANGED storeVars

\* creds, err := g.LoadCredentials(): the file as it is now is read into the
\* handler's own creds, or the read or the parse fails.
HandlerLoad ==
    /\ \E i \in 1..Len(handlers), loadOk \in BOOLEAN :
         /\ handlers[i].pc = "load"
         /\ handlers' = IF LoadCredentialsOk(credsFile, loadOk)
                        THEN [handlers EXCEPT ![i].creds = credsFile,
                                              ![i].pc = "save"]
                        ELSE [handlers EXCEPT ![i].val = "load_failed",
                                              ![i].pc = "send"]
    /\ UNCHANGED provVars
    /\ UNCHANGED <<state, server, resultCh, srvSend, ctxDone, watcher, timers,
                   received, nSent>>
    /\ UNCHANGED storeVars

\* f.Write(data) at offset 0 of the file this handler has opened, and
\* f.Close.  The bytes replace what the file holds; when another handler has
\* written more bytes since this one's open, the tail of those stays behind
\* them.  A failing write has put none or some of the bytes in place.
SaveWriteOutcomes == {"ok", "tail_left", "none_written", "part_written"}
WriteAtStart(file, data, out) ==
    IF out = "ok" THEN data
    ELSE IF out = "none_written" THEN file
    ELSE GarbledCredsFile

\* The open of os.WriteFile in g.SaveCredentials(creds): O_TRUNC empties the
\* file, or the open fails and the file is as it was.  Handlers run in goroutines of their own, so
\* the steps of another handler may come between this open and the write.
HandlerSaveOpen ==
    /\ \E i \in 1..Len(handlers), openOk \in BOOLEAN :
         /\ handlers[i].pc = "save"
         /\ credsFile' = IF openOk THEN EmptyCredsFile ELSE credsFile
         /\ handlers' = IF openOk
                        THEN [handlers EXCEPT ![i].pc = "write"]
                        ELSE [handlers EXCEPT ![i].val = "save_failed",
                                              ![i].creds = NoCreds,
                                              ![i].pc = "send"]
    /\ UNCHANGED <<config, token, issued>>
    /\ UNCHANGED <<state, server, resultCh, srvSend, ctxDone, watcher, timers,
                   received, nSent>>
    /\ UNCHANGED fetchVars
    /\ UNCHANGED storeVars

\* The write and the close of os.WriteFile; the close touches nothing another
\* goroutine sees.  The bytes are the handler's creds with the two token
\* assignments made (the handler record keeps creds as loaded, until the
\* save returns).  A tail is left only of bytes that are there.
HandlerSaveWrite ==
    /\ \E i \in 1..Len(handlers), out \in SaveWriteOutcomes :
         /\ handlers[i].pc = "write"
         /\ out = "tail_left" => credsFile # EmptyCredsFile
         /\ credsFile' = WriteAtStart(credsFile,
                             CredsAfterCallback(handlers[i].creds,
                                                handlers[i].tok), out)
         /\ handlers' = [handlers EXCEPT
                           ![i].val = IF out \in {"ok", "tail_left"}
                                      THEN "ok" ELSE "save_failed",
                           ![i].creds = NoCreds,
                           ![i].pc = "send"]
    /\ UNCHANGED <<config, token, issued>>
    /\ UNCHANGED <<state, server, resultCh, srvSend, ctxDone, watcher, timers,
                   received, nSent>>
    /\ UNCHANGED fetchVars
    /\ UNCHANGED storeVars

\* The handler's `resultCh <- ...` completes (it blocks while the single slot
\* is taken); after `resultCh <- nil` the delayed Shutdown goroutine starts.
HandlerSend ==
    /\ \E i \in 1..Len(handlers) :
         /\ handlers[i].pc = "send"
         /\ Len(resultCh) < 1
         /\ resultCh' = Append(resultCh, handlers[i].val)
         /\ nSent' = nSent + 1
         /\ handlers' = [handlers EXCEPT ![i].pc = "done"]
         /\ timers' = IF handlers[i].val = "ok" THEN timers + 1 ELSE timers
    /\ UNCHANGED <<state, server, srvSend, ctxDone, watcher, received>>
    /\ UNCHANGED provVars
    /\ UNCHANGED storeVars

\* time.Sleep(100ms); server.Shutdown: the listener is closed.
DelayedShutdown ==
    /\ timers > 0
    /\ timers' = timers - 1
    /\ server' = IF server \in {"starting", "listening"} THEN "closed" ELSE server
    /\ UNCHANGED <<state, resultCh, handlers, srvSend, ctxDone, watcher,
                   received, nSent>>
    /\ UNCHANGED provVars
    /\ UNCHANGED storeVars

\* The caller's context is cancelled.
Cancel ==
    /\ state # ""
    /\ ~ctxDone
    /\ ctxDone' = TRUE
    /\ UNCHANGED <<state, server, resultCh, handlers, srvSend, watcher, timers,
                   received, nSent>>
    /\ UNCHANGED provVars
    /\ UNCHANGED storeVars

\* <-ctx.Done(); server.Shutdown(context.Background()): the listener is closed
\* at once; Shutdown then waits for the active handlers to return.
WatcherShutdown ==
    /\ watcher = "waiting"
    /\ ctxDone
    /\ watcher' = "shutdown"
    /\ server' = IF server \in {"starting", "listening"} THEN "closed" ELSE server
    /\ UNCHANGED <<state, resultCh, handlers, srvSend, ctxDone, timers,
                   received, nSent>>
    /\ UNCHANGED provVars
    /\ UNCHANGED storeVars

\* select { case resultCh <- ctx.Err(): default: } once Shutdown has returned.
WatcherSend ==
    /\ watcher = "shutdown"
    /\ \A i \in 1..Len(handlers) : handlers[i].pc = "done"
    /\ watcher' = "done"
    /\ IF Len(resultCh) < 1
       THEN resultCh' = Append(resultCh, "cancelled") /\ nSent' = nSent + 1
       ELSE UNCHANGED <<resultCh, nSent>>
    /\ UNCHANGED <<state, server, handlers, srvSend, ctxDone, timers, received>>
    /\ UNCHANGED provVars
    /\ UNCHANGED storeVars

\* The caller (authorize in cmd/contacts): a single `<-errChan`.
Receive ==
    /\ Len(resultCh) > 0
    /\ Len(received) < 1
    /\ received' = Append(received, Head(resultCh))
    /\ resultCh' = Tail(resultCh)
    /\ UNCHANGED <<state, server, handlers, srvSend, ctxDone, watcher, timers, nSent>>
    /\ UNCHANGED provVars
    /\ UNCHANGED storeVars


----------------------------------------------------------------------------
\* Identifiers are strings; the model keeps them as sequences of characters.
Dash == "-"
Slash == "/"
Alphabet == <<"-", ".", "/", "0", "1", "2", "3", "A", "B", "a", "b", "c",
              "e", "f", "l", "o", "p", "u", "v">>
Digits == <<"0", "1", "2", "3", "4", "5", "6", "7", "8", "9">>

\* strings.Contains(s, ch)
Contains(s, ch) == \E i \in 1..Len(s) : s[i] = ch

\* uuid.New().String(): a fresh value formatted with separators.
NewUUID(n) == <<"u", Dash, Digits[n + 1]>>

IdC1 == <<"c", "1">>            \* provider-style identifiers
IdC2 == <<"c", "2">>
Names == {<<"A", "l">>, <<"B", "o">>}

\* A vcard.Card, reduced to the fields the store and the provider read.
Card(uid, fn, version, rev, synced, etag) ==
    [uid |-> uid, fn |-> fn, version |-> version, rev |-> rev,
     synced |-> synced, etag |-> etag]

CardUID(card) == card.uid
CardFullName(card) == card.fn

\* EncodeCard: the encoder refuses a card without VERSION; a field is a line
\* of the file only when it is set.
EncodeOk(card) == card.version

EncodeCard(card) ==
    [k \in {"VERSION"} \cup
           (IF card.uid # <<>> THEN {"UID"} ELSE {}) \cup
           (IF card.fn # <<>> THEN {"FN"} ELSE {}) \cup
           (IF card.rev # 0 THEN {"REV"} ELSE {}) \cup
           (IF card.synced # 0 THEN {"X-LAST-SYNCED"} ELSE {}) \cup
           (IF card.etag # <<>> THEN {"X-GOOGLE-ETAG"} ELSE {})
     |-> CASE k = "VERSION" -> <<"4", ".", "0">>
           [] k = "UID" -> card.uid
           [] k = "FN" -> card.fn
           [] k = "REV" -> <<Digits[card.rev + 1]>>
           [] k = "X-LAST-SYNCED" -> <<Digits[card.synced + 1]>>
           [] k = "X-GOOGLE-ETAG" -> card.etag]

DigitValue(d) == (CHOOSE i \in 1..Len(Digits) : Digits[i] = d) - 1

\* DecodeCard: a missing line reads back as the empty value.
DecodeCard(data) ==
    [uid |-> IF "UID" \in DOMAIN data THEN data["UID"] ELSE <<>>,
     fn |-> IF "FN" \in DOMAIN data THEN data["FN"] ELSE <<>>,
     version |-> "VERSION" \in DOMAIN data,
     rev |-> IF "REV" \in DOMAIN data THEN DigitValue(data["REV"][1]) ELSE 0,
     synced |-> IF "X-LAST-SYNCED" \in DOMAIN data
                THEN DigitValue(data["X-LAST-SYNCED"][1]) ELSE 0,
     etag |-> IF "X-GOOGLE-ETAG" \in DOMAIN data
              THEN data["X-GOOGLE-ETAG"] ELSE <<>>]

\* File name <uid>.vcf and the order os.ReadDir lists the directory in.
FileName(uid) == uid \o <<".", "v", "c", "f">>
Ord(ch) == CHOOSE i \in 1..Len(Alphabet) : Alphabet[i] = ch
NameLess(a, b) ==
    \E i \in 1..(Len(a) + 1) :
        /\ \A j \in 1..(i - 1) : j <= Len(b) /\ a[j] = b[j]
        /\ i <= Len(b)
        /\ (i = Len(a) + 1 \/ Ord(a[i]) < Ord(b[i]))

RECURSIVE SortedIds(_)
SortedIds(S) ==
    IF S = {} THEN <<>>
    ELSE LET m == CHOOSE x \in S :
                    \A y \in S \ {x} : NameLess(FileName(x), FileName(y))
         IN <<m>> \o SortedIds(S \ {m})

\* vcard Decoder.Decode fails on a file without a BEGIN:VCARD line; the empty
\* file (what a write that failed after truncating leaves) is one.
EmptyFile == <<>>
DecodeOk(data) == DOMAIN data # {}

\* strings.EqualFold on the letters of the model.
Fold(ch) == IF ch = "A" THEN "a" ELSE IF ch = "B" THEN "b" ELSE ch
EqualFold(a, b) ==
    Len(a) = Len(b) /\ \A i \in 1..Len(a) : Fold(a[i]) = Fold(b[i])

\* GetContact: (nil, nil) when <uid>.vcf does not exist, (nil, error) when it
\* cannot be read or decoded, else (card, nil).  bad is the set of files
\* os.ReadFile cannot read; err "" is nil.
GetContactStrict(dir, uid, bad) ==
    IF uid \notin DOMAIN dir \/ uid \in bad
    THEN [card |-> NoCard, err |-> "read"]
    ELSE IF ~DecodeOk(dir[uid]) THEN [card |-> NoCard, err |-> "parse"]
    ELSE [card |-> DecodeCard(dir[uid]), err |-> ""]

GetContact(dir, uid, bad) ==
    IF uid \notin DOMAIN dir THEN [card |-> NoCard, err |-> ""]
    ELSE IF uid \in bad THEN [card |-> NoCard, err |-> "read"]
    ELSE IF ~DecodeOk(dir[uid]) THEN [card |-> NoCard, err |-> "parse"]
    ELSE [card |-> DecodeCard(dir[uid]), err |-> ""]

\* ListContacts: every card of the directory, in directory order; the first
\* file that cannot be read or decoded fails the whole listing.
ListContacts(dir, bad) ==
    LET ids == SortedIds(DOMAIN dir)
        failing == {i \in 1..Len(ids) : ids[i] \in bad \/ ~DecodeOk(dir[ids[i]])}
        first == CHOOSE i \in failing : \A j \in failing : i <= j
    IN IF failing # {}
       THEN [cards |-> <<>>, err |-> IF ids[first] \in bad THEN "read" ELSE "parse"]
       ELSE [cards |-> [i \in 1..Len(ids) |-> DecodeCard(dir[ids[i]])],
             err |-> ""]

\* FindContactByName: the first listed card whose FN equals name, folded.
FindContactByName(dir, name, bad) ==
    LET l == ListContacts(dir, bad)
        m == {i \in 1..Len(l.cards) : EqualFold(CardFullName(l.cards[i]), name)}
    IN IF l.err # "" THEN [card |-> NoCard, err |-> l.err]
       ELSE IF m = {} THEN [card |-> NoCard, err |-> ""]
       ELSE [card |-> l.cards[CHOOSE i \in m : \A j \in m : i <= j], err |-> ""]

\* ResolveContact: by identifier first, then by name.
ResolveContactNameFirst(dir, query, bad) ==
    LET f == FindContactByName(dir, query, bad)
    IN IF f.err # "" THEN f
       ELSE IF f.card # NoCard THEN f
       ELSE GetContact(dir, query, bad)

ResolveContact(dir, query, bad) ==
    LET g == GetContact(dir, query, bad)
    IN IF g.err # "" THEN g
       ELSE IF g.card # NoCard THEN g
       ELSE FindContactByName(dir, query, bad)

\* os.WriteFile / os.Remove on the storage directory.
PutFile(dir, uid, data) ==
    [u \in DOMAIN dir \cup {uid} |-> IF u = uid THEN data ELSE dir[u]]
\* os.WriteFile(<uid>.vcf, data): w is how it ends; a write that fails past
\* the open leaves the file, created if it was not there, empty or cut short.
WriteFile(dir, uid, data, w) ==
    IF w = "ok" THEN PutFile(dir, uid, data)
    ELSE IF w = "write_failed" THEN PutFile(dir, uid, EmptyFile)
    ELSE dir
RemoveFile(dir, uid) == [u \in DOMAIN dir \ {uid} |-> dir[u]]

----------------------------------------------------------------------------
\* Provider operations.  Each returns what it did: err ("" is nil), the
\* events in the order they happened, and the provider's new state.
Event(e, method, uid, access, persisted) ==
    [e |-> e, method |-> method, uid |-> uid, access |-> access,
     persisted |-> persisted]

\* oauth2.Token.Valid
Valid(tok) == tok.set /\ tok.access # 0 /\ ~tok.expired

\* The token a token source hands out: the held one while valid, else a
\* refreshed one (a refresh answer without refresh_token keeps the old one).
Refreshed(tok, n) ==
    [refresh |-> tok.refresh, access |-> n, expired |-> FALSE, set |-> TRUE]

\* How the provider side answers one operation.
Responses == {"ok", "refresh_failed", "status"}

ProvResult(err, ev, tok, creds, n) ==
    [err |-> err, ev |-> ev, token |-> tok, creds |-> creds, issued |-> n]

\* The dash heuristic of GoogleContactsProvider.WriteContact.
IsExistingGoogleContact(uid) == ~Contains(uid, Dash)

\* The access token the credentials file holds (0 when it holds none).
PersistedAccess(file) ==
    IF file \in {EmptyCredsFile, GarbledCredsFile} THEN 0 ELSE file.access

\* The request g.config.Client(ctx, g.token) sends: its transport refreshes an
\* invalid token for the request only; neither g.token nor the credentials
\* file is written.
ClientDo(method, uid, resp) ==
    IF ~config \/ ~token.set
    THEN ProvResult("not_authenticated", <<>>, token, credsFile, issued)
    ELSE IF ~Valid(token) /\ resp = "refresh_failed"
    THEN ProvResult("transport", <<>>, token, credsFile, issued)
    ELSE LET n == IF Valid(token) THEN issued ELSE issued + 1
             used == IF Valid(token) THEN token ELSE Refreshed(token, n)
         IN ProvResult(IF resp = "status" THEN "status" ELSE "",
                       <<Event("request", method, uid, used.access,
                               PersistedAccess(credsFile))>>,
                       token, credsFile, n)

\* The request WriteContact builds: PATCH people/<uid>:updateContact with the
\* card's X-GOOGLE-ETAG in the body, or POST people:createContact.
People == <<"p", Slash>>

WriteRequest(card) ==
    IF IsExistingGoogleContact(CardUID(card))
    THEN [method |-> "updateContact", verb |-> "PATCH",
          resource |-> People \o CardUID(card), etag |-> card.etag]
    ELSE [method |-> "createContact", verb |-> "POST",
          resource |-> <<>>, etag |-> <<>>]

ProviderWriteContact(card, resp) ==
    ClientDo(WriteRequest(card).method, CardUID(card), resp)

ProviderDeleteContact(uid, resp) ==
    ClientDo("deleteContact", uid, resp)

\* convertPeopleAPIToCard: UID is the trailing segment of the resource name,
\* FN the first name's display name, else the UID.
RECURSIVE LastSegment(_)
LastSegment(s) ==
    IF ~Contains(s, Slash) THEN s
    ELSE LastSegment(SubSeq(s, (CHOOSE i \in 1..Len(s) : s[i] = Slash
                                  /\ \A j \in 1..(i - 1) : s[j] # Slash) + 1,
                            Len(s)))

\* A peopleAPIPerson, reduced to resourceName, the display names of its name
\* entries (in order) and etag.
PersonWithNames(resourceName, names, etag) ==
    [resourceName |-> resourceName, names |-> names, etag |-> etag]

Person(resourceName, displayName, etag) ==
    PersonWithNames(resourceName,
                    IF displayName = <<>> THEN <<>> ELSE <<displayName>>, etag)

\* the FN the name group sets: the first entry's display name, if any
NamedFN(person) ==
    IF Len(person.names) > 0 THEN person.names[1] ELSE <<>>

convertPeopleAPIToCardNoDefault(person) ==
    Card(LastSegment(person.resourceName), NamedFN(person), TRUE, 0, 0,
         person.etag)

convertPeopleAPIToCard(person) ==
    LET uid == LastSegment(person.resourceName)
    IN Card(uid, IF NamedFN(person) # <<>> THEN NamedFN(person) ELSE uid,
            TRUE, 0, 0, person.etag)

\* FetchContacts: refresh, persist the refreshed pair, then list (one page;
\* the loop over nextPageToken is FetchBegin / FetchPage).
FetchContacts(resp, loadOk, w) ==
    IF ~config \/ ~token.set
    THEN ProvResult("not_authenticated", <<>>, token, credsFile, issued)
    ELSE IF ~Valid(token) /\ resp = "refresh_failed"
    THEN ProvResult("refresh", <<>>, token, credsFile, issued)
    ELSE LET n == IF Valid(token) THEN issued ELSE issued + 1
             newToken == IF Valid(token) THEN token
                         ELSE Refreshed(token, n)
         IN IF ~LoadCredentialsOk(credsFile, loadOk)
            THEN ProvResult("load", <<>>, newToken, credsFile, n)
            ELSE LET creds == MergeTokens(credsFile, newToken)
                     saved == SaveCredentials(credsFile, creds, w)
                 IN IF w # "ok"
                    THEN ProvResult("save", <<>>, newToken, saved, n)
                    ELSE ProvResult(IF resp = "status" THEN "status" ELSE "",
                                    <<Event("request", "list", <<>>,
                                            newToken.access, creds.access)>>,
                                    newToken, saved, n)

----------------------------------------------------------------------------
\* FetchContacts page by page.  The People API is a map from page token
\* (0 is the empty token) to a page: its persons and its nextPageToken.
PageTokens == 0..MaxPages
PagePersons(k) ==
    IF k = 0
    THEN <<Person(<<"p", Slash, "c", "1">>, <<"A", "l">>, <<"e">>),
           Person(<<"p", Slash, "c", "2">>, <<>>, <<>>)>>
    ELSE <<Person(<<"p", Slash, "c", Digits[k + 3]>>, <<"B", "o">>, <<>>)>>

Servers ==
    {[k \in PageTokens |-> [persons |-> PagePersons(k), next |-> nx[k]]] :
        nx \in [PageTokens -> PageTokens]}

\* A provider whose first page carries no nextPageToken.
OnePage ==
    [k \in PageTokens |-> [persons |-> PagePersons(k), next |-> 0]]

\* fetch: pc, the People API, the loop's pageToken and allCards, and the page
\* tokens of the requests sent so far.
FetchIdle(srv) ==
    [pc |-> "idle", server |-> srv, pageToken |-> 0, allCards |-> <<>>,
     sent |-> <<>>]

\* cards of one page, in the order of its connections
PageCards(page) ==
    [i \in 1..Len(page.persons) |-> convertPeopleAPIToCard(page.persons[i])]

\* FetchContacts up to the loop: the token is refreshed and persisted.
FetchRefresh(refreshOk, loadOk, w) ==
    IF ~config \/ ~token.set
    THEN ProvResult("not_authenticated", <<>>, token, credsFile, issued)
    ELSE IF ~Valid(token) /\ ~refreshOk
    THEN ProvResult("refresh", <<>>, token, credsFile, issued)
    ELSE LET n == IF Valid(token) THEN issued ELSE issued + 1
             newToken == IF Valid(token) THEN token
                         ELSE Refreshed(token, n)
         IN IF ~LoadCredentialsOk(credsFile, loadOk)
            THEN ProvResult("load", <<>>, newToken, credsFile, n)
            ELSE ProvResult(IF w # "ok" THEN "save" ELSE "", <<>>, newToken,
                            SaveCredentials(credsFile,
                                MergeTokens(credsFile, newToken), w), n)

FetchBegin ==
    /\ fetch.pc = "idle"
    /\ \E refreshOk \in BOOLEAN, loadOk \in BOOLEAN, w \in WriteOutcomes :
         LET pr == FetchRefresh(refreshOk, loadOk, w)
         IN /\ pr.issued <= MaxTokens
            /\ token' = pr.token
            /\ credsFile' = pr.creds
            /\ issued' = pr.issued
            /\ fetch' = [fetch EXCEPT
                            !.pc = IF pr.err = "" THEN "paging" ELSE "failed"]
    /\ UNCHANGED <<config, syncToken, syncTokenFile>>
    /\ UNCHANGED storeVars
    /\ UNCHANGED authVars

\* One iteration of the loop: pageToken is sent when it is not empty; a
\* failing request returns nil; the page's cards are appended; the loop ends
\* on an empty nextPageToken.
NextRequestFirstPage(f, page) == 0

NextRequest(f, page) == page.next

\* What a page request can come to: a decoded 200 answer, a transport error,
\* another status, a body that does not decode.
PageResponses == {"ok", "transport", "status", "undecodable"}

FetchPage ==
    /\ fetch.pc = "paging"
    /\ Len(fetch.sent) < MaxRequests
    /\ \E resp \in PageResponses :
         LET page == fetch.server[fetch.pageToken]
             sent == Append(fetch.sent, fetch.pageToken)
         IN IF resp # "ok"
            THEN fetch' = [fetch EXCEPT !.pc = "failed", !.sent = sent,
                                        !.allCards = <<>>]
            ELSE fetch' = [fetch EXCEPT
                    !.sent = sent,
                    !.allCards = @ \o PageCards(page),
                    !.pc = IF page.next = 0 THEN "done" ELSE "paging",
                    !.pageToken = IF page.next = 0 THEN @
                                  ELSE NextRequest(fetch, page)]
    /\ UNCHANGED <<config, token, credsFile, issued, syncToken, syncTokenFile>>
    /\ UNCHANGED storeVars
    /\ UNCHANGED authVars

----------------------------------------------------------------------------
\* ContactManager

IsProviderContactNonEmpty(uid) == uid # <<>>

\* The dash heuristic of ContactManager.DeleteContact.
IsProviderContact(uid) == ~Contains(uid, Dash)

\* last: the operation, the card handed to it, the identifier it acted on,
\* the error it returned, the error of the provider call it made ("" when
\* none failed) and the events in order; k flips at every operation.
Outcome(op, card, uid, err, perr, ev) ==
    [k |-> 1 - last.k, op |-> op, card |-> card, uid |-> uid, err |-> err,
     perr |-> perr, ev |-> ev]

LocalEvent(e, uid) == Event(e, "", uid, 0, 0)

\* What WriteContact does to the directory and the provider, in order.
\* Returns [err, ev, dir, prov].
WriteContactPushFirst(card, w, pr) ==
    LET data == EncodeCard(card)
        noProv == ProvResult("", <<>>, token, credsFile, issued)
    IN IF ~EncodeOk(card)
       THEN [err |-> "marshal", ev |-> <<>>, dir |-> files, prov |-> noProv]
       ELSE IF provider /\ pr.err # ""
       THEN [err |-> "provider", ev |-> pr.ev, dir |-> files, prov |-> pr]
       ELSE IF w # "ok"
       THEN [err |-> "write", ev |-> IF provider THEN pr.ev ELSE <<>>,
             dir |-> WriteFile(files, CardUID(card), data, w),
             prov |-> IF provider THEN pr ELSE noProv]
       ELSE [err |-> "",
             ev |-> (IF provider THEN pr.ev ELSE <<>>)
                    \o <<LocalEvent("local_write", CardUID(card))>>,
             dir |-> WriteFile(files, CardUID(card), data, w),
             prov |-> IF provider THEN pr ELSE noProv]

WriteContactSteps(card, w, pr) ==
    LET data == EncodeCard(card)
        noProv == ProvResult("", <<>>, token, credsFile, issued)
        wrote == <<LocalEvent("local_write", CardUID(card))>>
        dir == WriteFile(files, CardUID(card), data, w)
    IN IF ~EncodeOk(card)
       THEN [err |-> "marshal", ev |-> <<>>, dir |-> files, prov |-> noProv]
       ELSE IF w # "ok"
       THEN [err |-> "write", ev |-> <<>>, dir |-> dir, prov |-> noProv]
       ELSE IF provider /\ pr.err # ""
       THEN [err |-> "provider", ev |-> wrote \o pr.ev, dir |-> dir,
             prov |-> pr]
       ELSE [err |-> "", ev |-> wrote \o (IF provider THEN pr.ev ELSE <<>>),
             dir |-> dir, prov |-> IF provider THEN pr ELSE noProv]

\* The card WriteContact persists: a UID is generated when missing, REV is
\* stamped with the current time.
StampedKeepUID(card, n, t) == [card EXCEPT !.rev = t]

Stamped(card, n, t) ==
    [card EXCEPT !.uid = IF CardUID(card) = <<>> THEN NewUUID(n) ELSE @,
                 !.rev = t]

\* Cards a caller hands to WriteContact: new ones, or a stored one edited.
WriteInputs ==
    {Card(u, f, TRUE, 0, 0, <<>>) : u \in {<<>>, IdC1}, f \in Names}
    \cup {Card(<<>>, <<"A", "l">>, FALSE, 0, 0, <<>>)}
    \cup {[GetContact(files, u, {}).card EXCEPT !.fn = f] :
        u \in {v \in DOMAIN files : GetContact(files, v, {}).card # NoCard},
        f \in Names}

\* The answers that can differ for the store: none without a provider.
StoreResponses == IF provider THEN Responses ELSE {"ok"}

WriteContact ==
    /\ \E c \in WriteInputs, w \in WriteOutcomes :
       \E resp \in (IF w = "ok" THEN StoreResponses ELSE {"ok"}) :
         LET card == Stamped(c, uuids, now)
             pr == ProviderWriteContact(card, resp)
             r == WriteContactSteps(card, w, pr)
         IN /\ CardUID(c) = <<>> => uuids < MaxUUID
            /\ r.prov.issued <= MaxTokens
            /\ uuids' = IF CardUID(c) = <<>> THEN uuids + 1 ELSE uuids
            /\ files' = r.dir
            /\ token' = r.prov.token
            /\ credsFile' = r.prov.creds
            /\ issued' = r.prov.issued
            /\ last' = Outcome("write", c, CardUID(card), r.err, r.prov.err, r.ev)
    /\ UNCHANGED <<config, provider, now, remote>>
    /\ UNCHANGED fetchVars
    /\ UNCHANGED authVars

\* What DeleteContact does, in order: the remote delete for a provider
\* identifier, then os.Remove.
DeleteContactLocalFirst(uid, rmOk, pr) ==
    LET noProv == ProvResult("", <<>>, token, credsFile, issued)
        remoteFirst == IsProviderContact(uid) /\ provider
    IN IF uid \notin DOMAIN files
       THEN [err |-> "not_found", ev |-> <<>>, dir |-> files, prov |-> noProv]
       ELSE IF ~rmOk
       THEN [err |-> "remove", ev |-> <<>>, dir |-> files, prov |-> noProv]
       ELSE IF remoteFirst /\ pr.err # ""
       THEN [err |-> "provider",
             ev |-> <<LocalEvent("local_remove", uid)>> \o pr.ev,
             dir |-> RemoveFile(files, uid), prov |-> pr]
       ELSE [err |-> "",
             ev |-> <<LocalEvent("local_remove", uid)>>
                    \o (IF remoteFirst THEN pr.ev ELSE <<>>),
             dir |-> RemoveFile(files, uid),
             prov |-> IF remoteFirst THEN pr ELSE noProv]

DeleteContactSilent(uid, rmOk, pr) ==
    LET noProv == ProvResult("", <<>>, token, credsFile, issued)
        remoteFirst == IsProviderContact(uid) /\ provider
        sent == IF remoteFirst THEN pr.ev ELSE <<>>
        after == IF remoteFirst THEN pr ELSE noProv
    IN IF remoteFirst /\ pr.err # ""
       THEN [err |-> "provider", ev |-> sent, dir |-> files, prov |-> pr]
       ELSE IF uid \notin DOMAIN files
       THEN [err |-> "", ev |-> sent, dir |-> files, prov |-> after]
       ELSE IF ~rmOk
       THEN [err |-> "remove", ev |-> sent, dir |-> files, prov |-> after]
       ELSE [err |-> "", ev |-> sent \o <<LocalEvent("local_remove", uid)>>,
             dir |-> RemoveFile(files, uid), prov |-> after]

DeleteContactSteps(uid, rmOk, pr) ==
    LET noProv == ProvResult("", <<>>, token, credsFile, issued)
        remoteFirst == IsProviderContact(uid) /\ provider
        sent == IF remoteFirst THEN pr.ev ELSE <<>>
        after == IF remoteFirst THEN pr ELSE noProv
    IN IF remoteFirst /\ pr.err # ""
       THEN [err |-> "provider", ev |-> sent, dir |-> files, prov |-> pr]
       ELSE IF uid \notin DOMAIN files
       THEN [err |-> "not_found", ev |-> sent, dir |-> files, prov |-> after]
       ELSE IF ~rmOk
       THEN [err |-> "remove", ev |-> sent, dir |-> files, prov |-> after]
       ELSE [err |-> "", ev |-> sent \o <<LocalEvent("local_remove", uid)>>,
             dir |-> RemoveFile(files, uid), prov |-> after]

DeleteInputs == {IdC1, IdC2, NewUUID(0)}

DeleteContact ==
    /\ \E uid \in DeleteInputs, rmOk \in BOOLEAN, resp \in StoreResponses :
         LET pr == ProviderDeleteContact(uid, resp)
             r == DeleteContactSteps(uid, rmOk, pr)
         IN /\ r.prov.issued <= MaxTokens
            /\ files' = r.dir
            /\ token' = r.prov.token
            /\ credsFile' = r.prov.creds
            /\ issued' = r.prov.issued
            /\ last' = Outcome("delete", NoCard, uid, r.err, r.prov.err, r.ev)
    /\ UNCHANGED <<config, provider, now, uuids, remote>>
    /\ UNCHANGED fetchVars
    /\ UNCHANGED authVars

\* Lookups.  A storage directory as earlier runs (and failed writes) left it:
\* records under provider and local identifiers, one of them with another
\* record's identifier as display name, and empty files.
IdL == <<"a", Dash, "1">>
LookupIds == {IdC1, IdC2, IdL}
FileChoices(uid) ==
    IF uid = IdC1
    THEN {EncodeCard(Card(IdC1, <<"A", "l">>, TRUE, 1, 0, <<>>))}
    ELSE IF uid = IdC2
    THEN {EncodeCard(Card(IdC2, IdC1, TRUE, 1, 0, <<>>)), EmptyFile}
    ELSE {EncodeCard(Card(IdL, <<"a", "l">>, TRUE, 1, 0, <<>>)), EmptyFile}

LookupDirs ==
    UNION {{d \in [S -> UNION {FileChoices(u) : u \in S}] :
               \A u \in S : d[u] \in FileChoices(u)} : S \in SUBSET LookupIds}

Queries == {IdC1, IdC2, <<"a", "l">>, <<"B", "o">>}

\* The files a lookup cannot read: none, or one of the directory.
Unreadable(dir) == {{}} \cup {{u} : u \in DOMAIN dir}
ReadEvents(bad) ==
    IF bad = {} THEN <<>>
    ELSE <<LocalEvent("unreadable", CHOOSE u \in bad : TRUE)>>

GetContactCall ==
    /\ \E q \in Queries, bad \in Unreadable(files) :
         LET r == GetContact(files, q, bad)
         IN last' = Outcome("get", r.card, q, r.err, "", ReadEvents(bad))
    /\ UNCHANGED <<provider, files, now, uuids, remote>>
    /\ UNCHANGED provVars
    /\ UNCHANGED authVars

ResolveContactCall ==
    /\ \E q \in Queries, bad \in Unreadable(files) :
         LET r == ResolveContact(files, q, bad)
         IN last' = Outcome("resolve", r.card, q, r.err, "", ReadEvents(bad))
    /\ UNCHANGED <<provider, files, now, uuids, remote>>
    /\ UNCHANGED provVars
    /\ UNCHANGED authVars

\* GoogleContactsProvider.WriteContact and DeleteContact called directly, with
\* any card: without identifier, with a provider or a local identifier, with
\* or without a stored etag.
ProviderInputs ==
    {Card(u, <<"A", "l">>, TRUE, 1, 0, e) :
        u \in {<<>>, IdC1, IdL}, e \in {<<>>, <<"e">>}}

ProviderWriteCall ==
    /\ \E card \in ProviderInputs, resp \in Responses :
         LET pr == ProviderWriteContact(card, resp)
         IN /\ pr.issued <= MaxTokens
            /\ token' = pr.token
            /\ credsFile' = pr.creds
            /\ issued' = pr.issued
            /\ last' = Outcome("provider_write", card, CardUID(card), pr.err,
                               pr.err,
                               IF pr.ev = <<>> THEN <<>>
                               ELSE <<WriteRequest(card)>>)
    /\ UNCHANGED <<config, provider, files, now, uuids, remote>>
    /\ UNCHANGED fetchVars
    /\ UNCHANGED authVars

ProviderDeleteCall ==
    /\ \E uid \in {IdC1, IdL}, resp \in Responses :
         LET pr == ProviderDeleteContact(uid, resp)
         IN /\ pr.issued <= MaxTokens
            /\ token' = pr.token
            /\ credsFile' = pr.creds
            /\ issued' = pr.issued
            /\ last' = Outcome("provider_delete", NoCard, uid, pr.err, pr.err,
                               pr.ev)
    /\ UNCHANGED <<config, provider, files, now, uuids, remote>>
    /\ UNCHANGED fetchVars
    /\ UNCHANGED authVars

\* convertPeopleAPIToCard applied to one provider contact: resource names
\* with and without path prefix, name groups absent, without display name,
\* and with several entries.
ConvertInputs ==
    {PersonWithNames(r, n, e) :
        r \in {<<"p", Slash, "c", "1">>, <<"c", "1">>,
               <<"p", Slash, "p", Slash, "c", "2">>,
               <<"p", Slash, "a", Dash, "1">>, <<"o", Slash, "e">>, <<"e">>},
        n \in {<<>>, <<<<"A", "l">>>>, <<<<>>>>, <<<<>>, <<"B", "o">>>>,
               <<<<"A", "l">>, <<"B", "o">>>>},
        e \in {<<>>, <<"e">>}}

ConvertCall ==
    /\ \E person \in ConvertInputs :
         last' = Outcome("convert", convertPeopleAPIToCard(person),
                         person.resourceName, "", "", <<person>>)
    /\ UNCHANGED <<provider, files, now, uuids, remote>>
    /\ UNCHANGED provVars
    /\ UNCHANGED authVars

----------------------------------------------------------------------------
\* Translation of dates between the People API and vCard values.

NoDate == [none |-> TRUE]
Date(y, m, d) == [year |-> y, month |-> m, day |-> d]

\* fmt.Sprintf("%0wd", n) for n >= 0: decimal digits, zero-padded to at least
\* w characters.
RECURSIVE DigitsOf(_)
DigitsOf(n) ==
    IF n < 10 THEN <<Digits[n + 1]>>
    ELSE DigitsOf(n \div 10) \o <<Digits[(n % 10) + 1]>>
Pad(n, w) ==
    LET ds == DigitsOf(n)
    IN [i \in 1..(IF Len(ds) < w THEN w - Len(ds) ELSE 0) |-> "0"] \o ds

\* Birthdays -> BDAY: the first birthday only; the empty value stands for
\* "no BDAY field set".
BirthdayValue(date) ==
    IF date.year > 0 /\ date.month > 0 /\ date.day > 0
    THEN Pad(date.year, 4) \o Pad(date.month, 2) \o Pad(date.day, 2)
    ELSE IF date.month > 0 /\ date.day > 0
    THEN <<Dash, Dash>> \o Pad(date.month, 2) \o Pad(date.day, 2)
    ELSE <<>>

\* Events -> ANNIVERSARY / X-GOOGLE-EVENT: dateStr; the empty value makes
\* the loop skip the event.
EventValue(date) ==
    IF date.year > 0
    THEN Pad(date.year, 4) \o Pad(date.month, 2) \o Pad(date.day, 2)
    ELSE IF date.month > 0 /\ date.day > 0
    THEN <<Dash, Dash>> \o Pad(date.month, 2) \o Pad(date.day, 2)
    ELSE <<>>

DateKinds == {"birthday", "anniversary", "event"}
DateValue(kind, date) ==
    IF kind = "birthday" THEN BirthdayValue(date) ELSE EventValue(date)

\* strings.ReplaceAll(s, "-", "")
RECURSIVE StripDashes(_)
StripDashes(s) ==
    IF s = <<>> THEN <<>>
    ELSE IF Head(s) = Dash THEN StripDashes(Tail(s))
    ELSE <<Head(s)>> \o StripDashes(Tail(s))

IsDigit(ch) == \E i \in 1..Len(Digits) : Digits[i] = ch
RECURSIVE ToNat(_)
ToNat(s) ==
    IF s = <<>> THEN 0
    ELSE 10 * ToNat(SubSeq(s, 1, Len(s) - 1)) + DigitValue(s[Len(s)])

\* time.Parse accepts a month in 1..12 and a day that exists in that month of
\* that year (a layout without year parses in year 0, a leap year).
IsLeap(y) == y % 4 = 0 /\ (y % 100 # 0 \/ y % 400 = 0)
DaysIn(y, m) ==
    IF m = 2 THEN (IF IsLeap(y) THEN 29 ELSE 28)
    ELSE IF m \in {4, 6, 9, 11} THEN 30 ELSE 31
TimeParse(y, m, d) ==
    IF m \in 1..12 /\ d >= 1 /\ d <= DaysIn(y, m) THEN Date(y, m, d)
    ELSE NoDate

\* parseDateValue without the separator stripping.
parseDateValueNoStrip(s) ==
    IF \E i \in 1..Len(s) : ~IsDigit(s[i]) THEN NoDate
    ELSE IF Len(s) = 8
    THEN TimeParse(ToNat(SubSeq(s, 1, 4)), ToNat(SubSeq(s, 5, 6)),
                   ToNat(SubSeq(s, 7, 8)))
    ELSE IF Len(s) = 4
    THEN TimeParse(0, ToNat(SubSeq(s, 1, 2)), ToNat(SubSeq(s, 3, 4)))
    ELSE NoDate

\* parseDateValue: "YYYYMMDD" or "--MMDD" to a date, NoDate for nil.
parseDateValue(s) ==
    LET t == StripDashes(s)
    IN IF Len(t) = 8
       THEN IF \E i \in 1..8 : ~IsDigit(t[i]) THEN NoDate
            ELSE TimeParse(ToNat(SubSeq(t, 1, 4)), ToNat(SubSeq(t, 5, 6)),
                           ToNat(SubSeq(t, 7, 8)))
       ELSE IF Len(t) = 4
       THEN IF \E i \in 1..4 : ~IsDigit(t[i]) THEN NoDate
            ELSE TimeParse(0, ToNat(SubSeq(t, 1, 2)), ToNat(SubSeq(t, 3, 4)))
       ELSE NoDate

\* Dates a provider contact may carry: absent parts are 0; years of one to
\* five digits, months and days inside and outside the calendar, of one to
\* four digits (%02d pads and does not cut).
DateYears == {0, 5, 1990, 2024, 10000}
DateMonths == {0, 2, 6, 12, 13, 1990}
DateDays == {0, 10, 29, 30, 31, 1015}
DateInputs ==
    {Date(y, m, d) : y \in DateYears, m \in DateMonths, d \in DateDays}

\* One date of a provider contact rendered by convertPeopleAPIToCard and read
\* back by parseDateValue.
DateCall ==
    /\ \E kind \in DateKinds, date \in DateInputs :
         LET value == DateValue(kind, date)
         IN last' = Outcome("date", NoCard, <<>>, "", "",
                            <<[kind |-> kind, date |-> date, value |-> value,
                               parsed |-> parseDateValue(value)]>>)
    /\ UNCHANGED <<provider, files, now, uuids, remote>>
    /\ UNCHANGED provVars
    /\ UNCHANGED authVars

----------------------------------------------------------------------------
\* Translation of addresses.

Semi == ";"

\* The seven fields of peopleAPIAddress in the order of the ADR value.
Components == <<"poBox", "extendedAddress", "streetAddress", "city",
                "region", "postalCode", "country">>

\* adrValue: the components joined with ";", nothing escaped.
RECURSIVE JoinFrom(_, _)
JoinFrom(addr, i) ==
    IF i = Len(Components) THEN addr[Components[i]]
    ELSE addr[Components[i]] \o <<Semi>> \o JoinFrom(addr, i + 1)
AddressValue(addr) == JoinFrom(addr, 1)

\* strings.SplitN(s, sep, n) for n >= 1: at most n parts, the last one the
\* unsplit rest.
RECURSIVE SplitN(_, _, _)
SplitN(s, sep, n) ==
    IF n = 1 \/ ~Contains(s, sep) THEN <<s>>
    ELSE LET i == CHOOSE j \in 1..Len(s) :
                      s[j] = sep /\ \A h \in 1..(j - 1) : s[h] # sep
         IN <<SubSeq(s, 1, i - 1)>> \o SplitN(SubSeq(s, i + 1, Len(s)), sep, n - 1)

\* ADR -> addresses: one entry of the payload, a key for every part found.
AddressOfValue(value) ==
    LET parts == SplitN(value, Semi, 7)
    IN [c \in {Components[i] : i \in 1..Len(parts)} |->
           parts[CHOOSE i \in 1..Len(parts) : Components[i] = c]]

\* Provider addresses: components empty, plain, and containing the ";"
\* character.
AddressInputs ==
    {[poBox |-> po, extendedAddress |-> <<>>, streetAddress |-> st,
      city |-> ci, region |-> re, postalCode |-> <<"1">>, country |-> co] :
        po \in {<<>>, <<"a">>, <<"a", Semi, "b">>},
        st \in {<<>>, <<"a">>, <<"a", Semi, "b">>},
        ci \in {<<>>, <<"a">>},
        re \in {<<>>, <<"b">>},
        co \in {<<>>, <<"a">>, <<"a", Semi, "b">>}}

\* One address through convertPeopleAPIToCard and convertCardToPeopleAPI.
AddressCall ==
    /\ \E addr \in AddressInputs :
         LET value == AddressValue(addr)
         IN last' = Outcome("address", NoCard, <<>>, "", "",
                            <<[address |-> addr, value |-> value,
                               payload |-> AddressOfValue(value)]>>)
    /\ UNCHANGED <<provider, files, now, uuids, remote>>
    /\ UNCHANGED provVars
    /\ UNCHANGED authVars

----------------------------------------------------------------------------
\* Translation of the groups the provider's write path accepts.

\* strings.ToLower / strings.ToUpper on the letters of the model.
UpperLetters == <<"A", "B", "C", "E", "L", "M">>
LowerLetters == <<"a", "b", "c", "e", "l", "m">>
ToLowerCh(ch) ==
    IF \E i \in 1..Len(UpperLetters) : UpperLetters[i] = ch
    THEN LowerLetters[CHOOSE i \in 1..Len(UpperLetters) : UpperLetters[i] = ch]
    ELSE ch
ToUpperCh(ch) ==
    IF \E i \in 1..Len(LowerLetters) : LowerLetters[i] = ch
    THEN UpperLetters[CHOOSE i \in 1..Len(LowerLetters) : LowerLetters[i] = ch]
    ELSE ch
ToLower(s) == [i \in 1..Len(s) |-> ToLowerCh(s[i])]
ToUpper(s) == [i \in 1..Len(s) |-> ToUpperCh(s[i])]

\* A vCard field with its TYPE parameter (empty when it has none), and
\* Params.Get(TYPE).
Field(value, type) == [value |-> value, type |-> type]
TypedField(entry) == Field(entry.value, ToLower(entry.type))

\* card.Value(k): the value of the first field, "" when there is none.
CardValue(card, k) == IF card[k] = <<>> THEN <<>> ELSE card[k][1].value

\* The groups of a provider contact that have a write-path equivalent.
Groups == {"names", "phoneNumbers", "emailAddresses", "addresses",
           "organizations", "birthdays", "biographies", "urls"}

\* The N value: family;given;middle;prefix;suffix.
NameValue(name) ==
    name.familyName \o <<Semi>> \o name.givenName \o <<Semi, Semi, Semi>>

\* ORG value: the name, and the department after a ";" when there is one.
OrgValue(org) ==
    IF org.department # <<>> THEN org.name \o <<Semi>> \o org.department
    ELSE org.name

\* convertPeopleAPIToCard on these groups: the fields of the card, each a
\* sequence of fields (empty when the card has no such field).
convertPeopleAPIToCardGroups(person) ==
    [N |-> IF person.names # <<>>
           THEN <<Field(NameValue(person.names[1]), <<>>)>> ELSE <<>>,
     FN |-> IF person.names # <<>> /\ person.names[1].displayName # <<>>
            THEN <<Field(person.names[1].displayName, <<>>)>>
            ELSE <<Field(LastSegment(person.resourceName), <<>>)>>,
     TEL |-> [i \in 1..Len(person.phoneNumbers) |->
                 TypedField(person.phoneNumbers[i])],
     EMAIL |-> [i \in 1..Len(person.emailAddresses) |->
                   TypedField(person.emailAddresses[i])],
     ADR |-> [i \in 1..Len(person.addresses) |->
                 Field(AddressValue(person.addresses[i]), <<>>)],
     ORG |-> IF person.organizations # <<>>
             THEN <<Field(OrgValue(person.organizations[1]), <<>>)>>
             ELSE <<>>,
     TITLE |-> IF person.organizations # <<>>
                  /\ person.organizations[1].title # <<>>
               THEN <<Field(person.organizations[1].title, <<>>)>>
               ELSE <<>>,
     BDAY |-> IF person.birthdays # <<>>
                 /\ BirthdayValue(person.birthdays[1]) # <<>>
              THEN <<Field(BirthdayValue(person.birthdays[1]), <<>>)>>
              ELSE <<>>,
     NOTE |-> [i \in 1..Len(person.biographies) |->
                  Field(person.biographies[i].value, <<>>)],
     URL |-> [i \in 1..Len(person.urls) |-> TypedField(person.urls[i])]]

\* The entries convertCardToPeopleAPI builds.
NamesOfCard(card) ==
    IF card.N # <<>>
    THEN LET parts == SplitN(card.N[1].value, Semi, 5)
             keys == <<"familyName", "givenName", "middleName",
                       "honorificPrefix", "honorificSuffix">>
         IN <<[c \in {keys[i] : i \in 1..Len(parts)} |->
                  parts[CHOOSE i \in 1..Len(parts) : keys[i] = c]]>>
    ELSE <<[displayName |-> CardValue(card, "FN")]>>
OrgOfCard(card) ==
    LET orgVal == CardValue(card, "ORG")
        titleVal == CardValue(card, "TITLE")
        parts == SplitN(orgVal, Semi, 2)
        org == IF orgVal = <<>> THEN <<>>
               ELSE IF Len(parts) > 1
               THEN [name |-> parts[1], department |-> parts[2]]
               ELSE [name |-> parts[1]]
    IN IF titleVal = <<>> THEN org
       ELSE IF orgVal = <<>> THEN [title |-> titleVal]
       ELSE org @@ [title |-> titleVal]

\* The payload as a record with all groups; the value <<>> stands for a
\* group that is not in the payload.
PayloadGroups(card, withOrg) ==
    [names |-> IF card.N # <<>> \/ CardValue(card, "FN") # <<>>
               THEN NamesOfCard(card) ELSE <<>>,
     phoneNumbers |-> card.TEL,
     emailAddresses |-> card.EMAIL,
     addresses |-> [i \in 1..Len(card.ADR) |->
                       AddressOfValue(card.ADR[i].value)],
     organizations |-> IF withOrg THEN <<OrgOfCard(card)>> ELSE <<>>,
     birthdays |-> IF CardValue(card, "BDAY") # <<>>
                      /\ parseDateValue(CardValue(card, "BDAY")) # NoDate
                   THEN <<[date |-> parseDateValue(CardValue(card, "BDAY"))]>>
                   ELSE <<>>,
     biographies |-> [i \in 1..Len(card.NOTE) |->
                         [value |-> card.NOTE[i].value]],
     urls |-> card.URL]

\* convertCardToPeopleAPI building the organization from ORG alone.
convertCardToPeopleAPINoTitle(card) ==
    LET all == PayloadGroups(card, CardValue(card, "ORG") # <<>>)
    IN [g \in {h \in Groups : all[h] # <<>>} |-> all[g]]

\* convertCardToPeopleAPI: the payload, a map from group name to entries.
convertCardToPeopleAPI(card) ==
    LET all == PayloadGroups(card, CardValue(card, "ORG") # <<>>
                                   \/ CardValue(card, "TITLE") # <<>>)
    IN [g \in {h \in Groups : all[h] # <<>>} |-> all[g]]

\* Provider contacts: each list group absent or with one entry, the
\* organization and the birthday with their parts present or absent.
PlainAddress ==
    [poBox |-> <<>>, extendedAddress |-> <<>>, streetAddress |-> <<"a">>,
     city |-> <<"b">>, region |-> <<>>, postalCode |-> <<"1">>,
     country |-> <<>>]
NameInputs ==
    {<<>>,
     <<[displayName |-> <<"A", "l">>, familyName |-> <<>>,
        givenName |-> <<"A", "l">>]>>,
     <<[displayName |-> <<>>, familyName |-> <<>>, givenName |-> <<>>]>>}
OrgInputs ==
    {<<>>,
     <<[name |-> <<"a">>, department |-> <<"b">>, title |-> <<"c">>]>>,
     <<[name |-> <<>>, department |-> <<>>, title |-> <<"c">>]>>,
     <<[name |-> <<>>, department |-> <<>>, title |-> <<>>]>>}
BirthdayInputs ==
    {<<>>, <<Date(1990, 6, 15)>>, <<Date(0, 6, 15)>>, <<Date(1990, 0, 0)>>,
     <<Date(1990, 2, 30)>>, <<Date(0, 1990, 1015)>>,
     <<Date(0, 0, 0), Date(1990, 6, 15)>>}
ListGroups == {"phoneNumbers", "emailAddresses", "addresses", "biographies",
               "urls"}
ListChoices == {{}, ListGroups} \cup {{g} : g \in ListGroups}
GroupInputs ==
    {[resourceName |-> <<"p", Slash, "c", "1">>,
      names |-> n, organizations |-> o, birthdays |-> b,
      phoneNumbers |-> IF "phoneNumbers" \in ls
                       THEN <<[value |-> <<"1">>, type |-> <<"C", "E", "L", "L">>]>>
                       ELSE <<>>,
      emailAddresses |-> IF "emailAddresses" \in ls
                         THEN <<[value |-> <<"e">>, type |-> <<>>]>> ELSE <<>>,
      addresses |-> IF "addresses" \in ls THEN <<PlainAddress>> ELSE <<>>,
      biographies |-> IF "biographies" \in ls
                      THEN <<[value |-> <<"b">>]>> ELSE <<>>,
      urls |-> IF "urls" \in ls
               THEN <<[value |-> <<"u">>, type |-> <<>>]>> ELSE <<>>] :
        n \in NameInputs, o \in OrgInputs, b \in BirthdayInputs,
        ls \in ListChoices}

\* One provider contact through convertPeopleAPIToCard and
\* convertCardToPeopleAPI.
RoundTripCall ==
    /\ \E person \in GroupInputs :
         LET card == convertPeopleAPIToCardGroups(person)
         IN last' = Outcome("roundtrip", NoCard, person.resourceName, "", "",
                            <<[person |-> person, card |-> card,
                               payload |-> convertCardToPeopleAPI(card)]>>)
    /\ UNCHANGED <<provider, files, now, uuids, remote>>
    /\ UNCHANGED provVars
    /\ UNCHANGED authVars

----------------------------------------------------------------------------
\* User-defined and client-scoped key/value pairs.

Space == " "

\* strings.ReplaceAll(key, " ", "-")
ReplaceSpaces(s) == [i \in 1..Len(s) |-> IF s[i] = Space THEN Dash ELSE s[i]]

\* The extension key of a pair: the prefix of its kind, then the key
\* upper-cased with "-" for " ".
Prefix(kind) ==
    IF kind = "userDefined" THEN <<"X-GOOGLE-CUSTOM-">>
    ELSE <<"X-GOOGLE-CLIENT-">>
ExtensionKey(kind, key) == Prefix(kind) \o ToUpper(ReplaceSpaces(key))

\* card.Add(k, value): the value is appended to the fields under k.
CardAdd(card, k, value) ==
    IF k \in DOMAIN card THEN [card EXCEPT ![k] = Append(@, value)]
    ELSE card @@ (k :> <<value>>)

\* The two loops over person.UserDefined and person.ClientData.
RECURSIVE AddPairs(_, _, _)
AddPairs(card, kind, pairs) ==
    IF pairs = <<>> THEN card
    ELSE AddPairs(CardAdd(card, ExtensionKey(kind, Head(pairs).key),
                          Head(pairs).value),
                  kind, Tail(pairs))
ExtensionFields(person) ==
    AddPairs(AddPairs(<<>>, "userDefined", person.userDefined),
             "clientData", person.clientData)

\* Keys that differ in case, in " " against "-", or in a letter; the values
\* of the three pairs of a contact are distinct.
KeyInputs ==
    {<<"a", Space, "b">>, <<"a", Dash, "b">>, <<"A", Space, "b">>,
     <<"A", Dash, "B">>, <<"a", "b">>, <<"b">>, <<"c">>, <<>>}
PairInputs ==
    {[userDefined |-> <<[key |-> k1, value |-> <<"1">>],
                        [key |-> k2, value |-> <<"2">>]>>,
      clientData |-> <<[key |-> <<"a", Space, "b">>, value |-> <<"3">>]>>] :
        k1 \in KeyInputs, k2 \in KeyInputs}

\* The pairs of one provider contact through convertPeopleAPIToCard.
UserDefinedCall ==
    /\ \E person \in PairInputs :
         last' = Outcome("userdefined", NoCard, <<>>, "", "",
                         <<[person |-> person,
                            card |-> ExtensionFields(person)]>>)
    /\ UNCHANGED <<provider, files, now, uuids, remote>>
    /\ UNCHANGED provVars
    /\ UNCHANGED authVars

----------------------------------------------------------------------------
\* Accessors of a record.

Cell == <<"c", "e", "l", "l">>
Mobile == <<"m", "o", "b", "i", "l", "e">>

\* PrimaryPhone comparing the TYPE parameter as it is written.
PrimaryPhoneCaseSensitive(fields) ==
    IF fields = <<>> THEN <<>>
    ELSE LET hits == {i \in 1..Len(fields) :
                         fields[i].type = Cell \/ fields[i].type = Mobile}
         IN IF hits # {}
            THEN fields[CHOOSE i \in hits : \A j \in hits : i <= j].value
            ELSE fields[1].value

\* PrimaryPhone on the TEL fields of a card: the first field whose
\* lower-cased TYPE is "cell" or "mobile", else the first field.
PrimaryPhone(fields) ==
    IF fields = <<>> THEN <<>>
    ELSE LET hits == {i \in 1..Len(fields) :
                         ToLower(fields[i].type) = Cell
                         \/ ToLower(fields[i].type) = Mobile}
         IN IF hits # {}
            THEN fields[CHOOSE i \in hits : \A j \in hits : i <= j].value
            ELSE fields[1].value

\* TEL fields: up to MaxPhones, the value telling the position, the TYPE absent,
\* another label, or a spelling of cell or mobile.
PhoneTypes ==
    {<<>>, <<"h", "o", "m", "e">>, <<"c", "e", "l">>, Cell,
     <<"C", "E", "L", "L">>, Mobile, <<"M", "o", "b", "i", "l", "e">>}
MaxPhones == 2
PhoneInputs ==
    UNION {{[i \in 1..n |-> Field(<<Digits[i + 1]>>, t[i])] :
               t \in [1..n -> PhoneTypes]} : n \in 0..MaxPhones}

PrimaryPhoneCall ==
    /\ \E fields \in PhoneInputs :
         last' = Outcome("phone", NoCard, <<>>, "", "",
                         <<[fields |-> fields,
                            result |-> PrimaryPhone(fields)]>>)
    /\ UNCHANGED <<provider, files, now, uuids, remote>>
    /\ UNCHANGED provVars
    /\ UNCHANGED authVars

\* writeContactLocal: a UID is generated when the card has none, X-LAST-SYNCED
\* is stamped, the file <uid>.vcf is replaced.
SyncedCard(card, t) == [card EXCEPT !.synced = t]

LocalUID(card, n) == IF CardUID(card) = <<>> THEN NewUUID(n) ELSE CardUID(card)

writeContactLocal(dir, card, t, n, w) ==
    WriteFile(dir, LocalUID(card, n),
              EncodeCard(SyncedCard([card EXCEPT !.uid = LocalUID(card, n)], t)),
              w)

\* The loop of SyncContacts over the fetched cards, in order; it stops at the
\* first failing write (failAt, 0 for none), which ends as w says.  n counts
\* the uuids generated.
RECURSIVE WriteLocalAllUnstamped(_, _, _, _, _, _)
WriteLocalAllUnstamped(dir, cards, t, failAt, n, w) ==
    IF cards = <<>> THEN dir
    ELSE IF failAt = 1
    THEN WriteFile(dir, LocalUID(Head(cards), n), EncodeCard(Head(cards)), w)
    ELSE WriteLocalAllUnstamped(
            PutFile(dir, LocalUID(Head(cards), n), EncodeCard(Head(cards))),
            Tail(cards), t, IF failAt = 0 THEN 0 ELSE failAt - 1,
            IF CardUID(Head(cards)) = <<>> THEN n + 1 ELSE n, w)

RECURSIVE WriteLocalAllMirror(_, _, _, _, _, _)
WriteLocalAllMirror(dir, cards, t, failAt, n, w) ==
    IF cards = <<>> THEN dir
    ELSE IF failAt = 1 THEN writeContactLocal(dir, Head(cards), t, n, w)
    ELSE LET rest == WriteLocalAllMirror(<<>>, Tail(cards), t,
                        IF failAt = 0 THEN 0 ELSE failAt - 1,
                        IF CardUID(Head(cards)) = <<>> THEN n + 1 ELSE n, w)
         IN writeContactLocal(rest, Head(cards), t, n, "ok")

RECURSIVE WriteLocalAll(_, _, _, _, _, _)
WriteLocalAll(dir, cards, t, failAt, n, w) ==
    IF cards = <<>> THEN dir
    ELSE IF failAt = 1 THEN writeContactLocal(dir, Head(cards), t, n, w)
    ELSE WriteLocalAll(
            writeContactLocal(dir, Head(cards), t, n, "ok"),
            Tail(cards), t, IF failAt = 0 THEN 0 ELSE failAt - 1,
            IF CardUID(Head(cards)) = <<>> THEN n + 1 ELSE n, w)

\* How a failing os.WriteFile ends.
FailOutcomes == WriteOutcomes \ {"ok"}

\* The cards the loop wrote, and what each write met in the directory.
Written(cards, failAt) ==
    IF failAt = 0 THEN cards ELSE SubSeq(cards, 1, failAt - 1)

\* The cards writeContactLocal was called with: the written ones and the one
\* whose write failed.
Attempted(cards, failAt) ==
    IF failAt = 0 THEN cards ELSE SubSeq(cards, 1, failAt)

Generated(cards) ==
    Cardinality({i \in 1..Len(cards) : CardUID(cards[i]) = <<>>})

WriteKind(dir, uid) ==
    IF uid \notin DOMAIN dir THEN "create"
    ELSE IF ~DecodeOk(dir[uid]) THEN "replace_broken"
    ELSE IF DecodeCard(dir[uid]).rev # 0 THEN "replace_edited"
    ELSE "replace_synced"

SyncEvents(dir, cards) ==
    [i \in 1..Len(cards) |->
        Event("local_write", WriteKind(dir, CardUID(cards[i])),
              CardUID(cards[i]), 0, 0)]

\* The People API's answer: the remote persons, in resource-name order.
RemoteCards ==
    LET ids == SortedIds({p.resourceName : p \in remote})
    IN [i \in 1..Len(ids) |->
          convertPeopleAPIToCard(
              CHOOSE p \in remote : p.resourceName = ids[i])]

\* SyncContacts calls cm.provider.FetchContacts() unconditionally: with a nil
\* provider the call is a nil dereference and the program panics.
SyncContacts ==
    /\ IF ~provider
       THEN /\ last' = Outcome("sync", NoCard, <<>>, "panic", "", <<>>)
            /\ UNCHANGED <<token, credsFile, issued, files, uuids>>
       ELSE \E resp \in Responses, loadOk \in BOOLEAN :
            \E sw \in (IF loadOk THEN WriteOutcomes ELSE {"ok"}) :
            \E failAt \in (IF loadOk /\ sw = "ok" /\ resp = "ok"
                           THEN 0..Cardinality(remote) ELSE {0}) :
            \E w \in (IF failAt = 0 THEN {"open_failed"} ELSE FailOutcomes) :
              LET pr == FetchContacts(resp, loadOk, sw)
                  written == Written(RemoteCards, failAt)
                  tried == Attempted(RemoteCards, failAt)
              IN /\ pr.issued <= MaxTokens
                 /\ token' = pr.token
                 /\ credsFile' = pr.creds
                 /\ issued' = pr.issued
                 /\ IF pr.err # ""
                    THEN /\ UNCHANGED <<files, uuids>>
                         /\ last' = Outcome("sync", NoCard, <<>>, "fetch",
                                            pr.err, pr.ev)
                    ELSE /\ uuids + Generated(tried) <= MaxUUID
                         /\ uuids' = uuids + Generated(tried)
                         /\ files' = WriteLocalAll(files, RemoteCards, now,
                                                   failAt, uuids, w)
                         /\ last' = Outcome("sync", NoCard, <<>>,
                                            IF failAt = 0 THEN "" ELSE "write",
                                            "",
                                            pr.ev \o SyncEvents(files, written))
    /\ UNCHANGED <<config, provider, now, remote>>
    /\ UNCHANGED fetchVars
    /\ UNCHANGED authVars

\* SyncContacts over a FetchContacts call that runs page by page
\* (FetchBegin, FetchPage): what the store does once the call has returned.

\* The store writing the first page although the fetch returned an error.
SyncResultFirstPage(f) ==
    IF f.pc = "failed"
    THEN [err |-> "fetch", cards |-> PageCards(f.server[0])]
    ELSE [err |-> "", cards |-> f.allCards]

\* remoteContacts, err := FetchContacts(); if err != nil { return err }
SyncResult(f) ==
    IF f.pc = "failed" THEN [err |-> "fetch", cards |-> <<>>]
    ELSE [err |-> "", cards |-> f.allCards]

SyncReturn ==
    /\ provider
    /\ fetch.pc \in {"done", "failed"}
    /\ LET r == SyncResult(fetch)
       IN \E failAt \in 0..Len(r.cards) :
          \E w \in (IF failAt = 0 THEN {"open_failed"} ELSE FailOutcomes) :
            LET written == Written(r.cards, failAt)
                tried == Attempted(r.cards, failAt)
            IN /\ uuids + Generated(tried) <= MaxUUID
               /\ uuids' = uuids + Generated(tried)
               /\ files' = WriteLocalAll(files, r.cards, now, failAt, uuids, w)
               /\ last' = Outcome("sync", NoCard, <<>>,
                                  IF r.err # "" THEN r.err
                                  ELSE IF failAt = 0 THEN "" ELSE "write",
                                  "",
                                  <<[e |-> "fetch", pc |-> fetch.pc,
                                     sent |-> fetch.sent]>>
                                      \o SyncEvents(files, written))
    /\ fetch' = FetchIdle(fetch.server)
    /\ UNCHANGED <<provider, now, remote>>
    /\ UNCHANGED <<config, token, credsFile, issued, syncToken, syncTokenFile>>
    /\ UNCHANGED authVars

\* Time passes: the clock advances, and the held access token expires.
Tick ==
    /\ now < MaxClock
    /\ now' = now + 1
    /\ UNCHANGED <<provider, files, uuids, remote, last>>
    /\ UNCHANGED provVars
    /\ UNCHANGED authVars

TokenExpires ==
    /\ Valid(token)
    /\ token' = [token EXCEPT !.expired = TRUE]
    /\ UNCHANGED <<config, credsFile, issued>>
    /\ UNCHANGED fetchVars
    /\ UNCHANGED storeVars
    /\ UNCHANGED authVars

----------------------------------------------------------------------------
\* The sync cursor file as an earlier run left it, and the cursor the People
\* API issues with the last page of a full listing.
OldCursor == <<"o">>
IssuedCursor == <<"n">>

----------------------------------------------------------------------------
Init ==
    /\ config = FALSE
    /\ token = NoToken
    /\ \E r \in {0, 1} :
         credsFile = [client_id |-> "cid", client_secret |-> "secret",
                      refresh |-> r, access |-> r, email |-> "me@example.com"]
    /\ issued = 1
    /\ syncToken = <<>>
    /\ syncTokenFile \in {<<>>, OldCursor}
    /\ fetch \in {FetchIdle(s) : s \in Servers}
    /\ state = ""
    /\ server = "none"
    /\ resultCh = <<>>
    /\ handlers = <<>>
    /\ srvSend = FALSE
    /\ ctxDone = FALSE
    /\ watcher = "idle"
    /\ timers = 0
    /\ received = <<>>
    /\ nSent = 0
    /\ provider \in BOOLEAN
    /\ files \in LookupDirs
    /\ now = 1
    /\ uuids = 0
    /\ remote \in SUBSET {Person(<<"p", Slash, "c", "1">>, <<"A", "l">>, <<"e">>),
                           Person(<<"p", Slash, "c", "2">>, <<>>, <<>>)}
    /\ last = [k |-> 0, op |-> "none", card |-> NoCard, uid |-> <<>>,
               err |-> "", perr |-> "", ev |-> <<>>]

NextAuth ==
    \/ Initialize
    \/ AuthorizeWithPKCE
    \/ ListenAndServe
    \/ ServerErrorSend
    \/ Callback
    \/ HandlerExchange
    \/ HandlerSetToken
    \/ HandlerLoad
    \/ HandlerSaveOpen
    \/ HandlerSaveWrite
    \/ HandlerSend
    \/ DelayedShutdown
    \/ Cancel
    \/ WatcherShutdown
    \/ WatcherSend
    \/ Receive

\* The flow is run on a provider alone (the init command): no store.
InitAuth ==
    /\ provider = FALSE /\ remote = {} /\ files = <<>>
    /\ syncTokenFile = <<>> /\ fetch = FetchIdle(OnePage)
    /\ Init

SpecAuth == InitAuth /\ [][NextAuth]_vars

\* The goroutines of the flow and the receiving caller are scheduled, the
\* exchange and the file operations return; callback requests and
\* cancellation come from outside and need not happen.
FairAuth ==
    /\ SpecAuth
    /\ WF_vars(ListenAndServe)
    /\ WF_vars(ServerErrorSend)
    /\ WF_vars(HandlerExchange)
    /\ WF_vars(HandlerSetToken)
    /\ WF_vars(HandlerLoad)
    /\ WF_vars(HandlerSaveOpen)
    /\ WF_vars(HandlerSaveWrite)
    /\ WF_vars(HandlerSend)
    /\ WF_vars(DelayedShutdown)
    /\ WF_vars(WatcherShutdown)
    /\ WF_vars(WatcherSend)
    /\ WF_vars(Receive)

\* The flow when every callback is a denial: no handler succeeds, so no
\* delayed Shutdown is started.
NextDenied ==
    \/ Initialize
    \/ AuthorizeWithPKCE
    \/ ListenAndServe
    \/ ServerErrorSend
    \/ DeniedCallback
    \/ HandlerSend
    \/ Cancel
    \/ WatcherShutdown
    \/ WatcherSend
    \/ Receive

SpecDenied == InitAuth /\ [][NextDenied]_vars

FairDenied ==
    /\ SpecDenied
    /\ WF_vars(ListenAndServe)
    /\ WF_vars(ServerErrorSend)
    /\ WF_vars(HandlerSend)
    /\ WF_vars(WatcherShutdown)
    /\ WF_vars(WatcherSend)
    /\ WF_vars(Receive)

\* Syncs of a store whose provider is authorized, from any local store of
\* the bound (records edited locally, local-only records, broken files) and
\* any remote set, with time passing in between.
InitSync ==
    /\ provider = TRUE
    /\ fetch = FetchIdle(OnePage)
    /\ Init
    /\ credsFile.refresh = 1

NextSync ==
    \/ Initialize
    \/ SyncContacts
    \/ Tick

SpecSync == InitSync /\ [][NextSync]_vars

InitStore ==
    /\ remote = {} /\ files = <<>>
    /\ syncTokenFile = <<>> /\ fetch = FetchIdle(OnePage)
    /\ Init

NextStore ==
    \/ Initialize
    \/ WriteContact
    \/ DeleteContact
    \/ SyncContacts
    \/ TokenExpires

SpecStore == InitStore /\ [][NextStore]_vars

\* The provider's operations called on their own.
InitProvider ==
    /\ provider = TRUE /\ remote = {} /\ files = <<>>
    /\ syncTokenFile = <<>> /\ fetch = FetchIdle(OnePage)
    /\ Init

NextProvider ==
    \/ Initialize
    \/ ProviderWriteCall
    \/ ProviderDeleteCall

SpecProvider == InitProvider /\ [][NextProvider]_vars

\* The translation of one provider contact.
InitConvert ==
    /\ provider = FALSE /\ remote = {} /\ files = <<>>
    /\ syncTokenFile = <<>> /\ fetch = FetchIdle(OnePage)
    /\ Init
    /\ credsFile.refresh = 0

NextConvert == ConvertCall

SpecConvert == InitConvert /\ [][NextConvert]_vars

\* Lookups on a store without provider.
InitLookup ==
    /\ provider = FALSE /\ remote = {}
    /\ syncTokenFile = <<>> /\ fetch = FetchIdle(OnePage)
    /\ Init

NextLookup ==
    \/ GetContactCall
    \/ ResolveContactCall
    \/ DeleteContact

SpecLookup == InitLookup /\ [][NextLookup]_vars

\* One FetchContacts call against any People API of the bound.
InitFetch ==
    /\ provider = TRUE /\ remote = {} /\ files = <<>>
    /\ syncTokenFile = <<>>
    /\ Init

NextFetch ==
    \/ Initialize
    \/ FetchBegin
    \/ FetchPage

SpecFetch == InitFetch /\ [][NextFetch]_vars

\* The call's goroutine keeps running.
FairFetch == SpecFetch /\ WF_vars(FetchPage)

\* Dates of provider contacts rendered and read back.
InitDates ==
    /\ provider = FALSE /\ remote = {} /\ files = <<>>
    /\ syncTokenFile = <<>> /\ fetch = FetchIdle(OnePage)
    /\ Init
    /\ credsFile.refresh = 0

NextDates ==
    \/ DateCall

SpecDates == InitDates /\ [][NextDates]_vars

\* Addresses of provider contacts translated to ADR values and back.
InitAddress ==
    /\ provider = FALSE /\ remote = {} /\ files = <<>>
    /\ syncTokenFile = <<>> /\ fetch = FetchIdle(OnePage)
    /\ Init
    /\ credsFile.refresh = 0

NextAddress == AddressCall

SpecAddress == InitAddress /\ [][NextAddress]_vars

\* Provider contacts translated to cards and back to payloads.
InitRoundTrip ==
    /\ provider = FALSE /\ remote = {} /\ files = <<>>
    /\ syncTokenFile = <<>> /\ fetch = FetchIdle(OnePage)
    /\ Init
    /\ credsFile.refresh = 0

NextRoundTrip == RoundTripCall

SpecRoundTrip == InitRoundTrip /\ [][NextRoundTrip]_vars

\* Key/value pairs of provider contacts translated to extension fields.
InitPairs ==
    /\ provider = FALSE /\ remote = {} /\ files = <<>>
    /\ syncTokenFile = <<>> /\ fetch = FetchIdle(OnePage)
    /\ Init
    /\ credsFile.refresh = 0

NextPairs == UserDefinedCall

SpecPairs == InitPairs /\ [][NextPairs]_vars

\* PrimaryPhone on the cards of the bound.
InitPhones ==
    /\ provider = FALSE /\ remote = {} /\ files = <<>>
    /\ syncTokenFile = <<>> /\ fetch = FetchIdle(OnePage)
    /\ Init
    /\ credsFile.refresh = 0

NextPhones == PrimaryPhoneCall

SpecPhones == InitPhones /\ [][NextPhones]_vars

\* Syncs whose fetch runs page by page against any People API of the bound,
\* from any local store of the bound.
InitPagedSync ==
    /\ provider = TRUE /\ remote = {}
    /\ syncTokenFile = <<>>
    /\ Init

NextPagedSync ==
    \/ Initialize
    \/ FetchBegin
    \/ FetchPage
    \/ SyncReturn

SpecPagedSync == InitPagedSync /\ [][NextPagedSync]_vars

----------------------------------------------------------------------------
\* Properties of the authorization flow (checked under SpecAuth / FairAuth).

\* C1: a callback whose `state` differs from the generated state makes its
\* handler send a failure on the result channel, and that handler never
\* reaches the code exchange.
C1_StateMismatchFails ==
    \A i \in 1..Len(handlers) :
        handlers[i].rstate # state =>
            /\ handlers[i].val # "ok"
            /\ ~handlers[i].exchanged
            /\ handlers[i].tok = NoToken

\* A callback with a code, no error and a wrong state was handled and its
\* failure has entered the result channel.
C1_Witness ==
    \E i \in 1..Len(handlers) :
        /\ handlers[i].rstate # state
        /\ handlers[i].val = "state_mismatch"
        /\ handlers[i].pc = "done"

\* C2: exactly one value is ever delivered on the result channel: never a
\* second one, and one as soon as some sender has finished.
C2_ExactlyOneResult ==
    /\ nSent <= 1
    /\ (\E i \in 1..Len(handlers) : handlers[i].pc = "done") => nSent = 1
    /\ watcher = "done" => nSent = 1

\* C3: after every terminal outcome the callback listener is eventually shut
\* down (checked under FairAuth).
TerminalOutcome == nSent > 0
ListenerBound == server = "listening"
C3_ListenerEventuallyClosed == TerminalOutcome ~> ~ListenerBound

\* C4: once a state-mismatch failure has been reported, no later callback
\* of the flow performs a code exchange or changes the stored credentials.
MismatchReported ==
    \E i \in 1..Len(handlers) :
        handlers[i].val = "state_mismatch" /\ handlers[i].pc = "done"

C4_MismatchIsFatal ==
    [][(MismatchReported /\ Len(handlers') > Len(handlers)) =>
          ~handlers'[Len(handlers')].exchanged]_vars

\* C6: when a callback ends in success (its SaveCredentials returns without
\* error), the credentials file holds the token pair that callback's exchange
\* issued, with client id, client secret and email as the callback loaded
\* them; when the only callback that passed the checks ends in a failure, the
\* file is what it was before that callback.
Ends(i) == handlers[i].val = "" /\ handlers'[i].val # ""
Alone(i) ==
    \A j \in 1..Len(handlers) : j # i => ~handlers[j].exchanged
Before(i) ==
    IF handlers[i].pc = "write" THEN handlers[i].creds ELSE credsFile

C6_CredentialsMerge ==
    [][\A i \in 1..Len(handlers) :
          Ends(i) =>
             IF handlers'[i].val = "ok"
             THEN /\ handlers[i].tok # NoToken
                  /\ credsFile' = MergeTokens(handlers[i].creds,
                                              handlers[i].tok)
             ELSE Alone(i) => credsFile' = Before(i)]_vars

----------------------------------------------------------------------------
\* Properties of the provider operations and the store (checked under
\* SpecStore).

RequestEvents(ev) == {i \in 1..Len(ev) : ev[i].e = "request"}
StoreOp(op) == last'.k # last.k /\ last'.op = op

\* C5: whenever a provider operation sends its request, the access token it
\* sends has been persisted to the credentials file.
C5_RefreshPersistedBeforeRequest ==
    \A i \in RequestEvents(last.ev) : last.ev[i].persisted = last.ev[i].access

\* C7: with a provider configured, a WriteContact whose push fails returns an
\* error, has written the local file first, and the file holds the record.
C7_LocalWrittenBeforePush ==
    (last.op = "write" /\ provider /\ last.perr # "") =>
        /\ last.err # ""
        /\ Len(last.ev) >= 1
        /\ last.ev[1].e = "local_write"
        /\ \A i \in RequestEvents(last.ev) : i > 1
        /\ GetContact(files, last.uid, {}).err = ""
        /\ GetContact(files, last.uid, {}).card # NoCard
        /\ CardFullName(GetContact(files, last.uid, {}).card)
              = CardFullName(last.card)
        /\ GetContact(files, last.uid, {}).card.rev # 0

\* A push was sent and refused after the local write.
C7_Witness ==
    /\ last.op = "write" /\ provider /\ last.perr = "status"
    /\ Len(last.ev) = 2 /\ last.ev[2].e = "request"
    /\ last.uid \in DOMAIN files

\* C8: DeleteContact of a provider identifier with a provider configured
\* sends the remote delete before it removes the local file; when the remote
\* delete fails it returns an error and the directory is as before.
C8_RemoteDeleteFirst ==
    [][(StoreOp("delete") /\ IsProviderContact(last'.uid) /\ provider) =>
          /\ \A i \in 1..Len(last'.ev) :
                last'.ev[i].e = "local_remove" =>
                    \E j \in 1..(i - 1) : /\ last'.ev[j].e = "request"
                                          /\ last'.ev[j].method = "deleteContact"
                                          /\ last'.ev[j].uid = last'.uid
          /\ last'.perr # "" =>
                /\ last'.err # ""
                /\ files' = files
                /\ GetContact(files', last'.uid, {})
                      = GetContact(files, last'.uid, {})
                /\ ListContacts(files', {}) = ListContacts(files, {})]_vars

\* The remote delete of a stored provider contact was sent and refused; the
\* record is still there.
C8_Witness ==
    /\ last.op = "delete" /\ provider /\ last.perr = "status"
    /\ IsProviderContact(last.uid)
    /\ Len(last.ev) = 1 /\ last.ev[1].method = "deleteContact"
    /\ GetContact(files, last.uid, {}).card # NoCard

\* C9: after a successful DeleteContact(id) the record is neither returned by
\* GetContact nor listed; DeleteContact of an identifier without a local file
\* returns an error and leaves the directory as it was.
Listed(dir, uid) ==
    LET l == ListContacts(dir, {})
    IN {i \in 1..Len(l.cards) : CardUID(l.cards[i]) = uid}

C9_DeleteThenNotFound ==
    [][StoreOp("delete") =>
          /\ last'.err = "" =>
                /\ GetContact(files', last'.uid, {})
                      = [card |-> NoCard, err |-> ""]
                /\ Listed(files', last'.uid) = {}
                /\ last'.uid \in DOMAIN files
          /\ last'.uid \notin DOMAIN files =>
                /\ last'.err # ""
                /\ files' = files]_vars

\* A stored record was deleted successfully.
C9_Witness ==
    /\ last.op = "delete" /\ last.err = ""
    /\ \E i \in 1..Len(last.ev) : last.ev[i].e = "local_remove"
    /\ GetContact(files, last.uid, {}) = [card |-> NoCard, err |-> ""]

\* C10: WriteContact of a card without identifier gives it a fresh, non-empty
\* identifier of the locally-generated form; after a successful WriteContact
\* GetContact returns the record under its identifier with the same display
\* name and a revision stamp, and ListContacts holds it exactly once.
C10_WriteThenGet ==
    [][(StoreOp("write") /\ last'.err = "") =>
          /\ CardUID(last'.card) = <<>> =>
                /\ last'.uid # <<>>
                /\ ~IsProviderContact(last'.uid)
                /\ last'.uid \notin DOMAIN files
          /\ CardUID(last'.card) # <<>> => last'.uid = CardUID(last'.card)
          /\ GetContact(files', last'.uid, {}).err = ""
          /\ GetContact(files', last'.uid, {}).card # NoCard
          /\ CardUID(GetContact(files', last'.uid, {}).card) = last'.uid
          /\ CardFullName(GetContact(files', last'.uid, {}).card)
                = CardFullName(last'.card)
          /\ GetContact(files', last'.uid, {}).card.rev # 0
          /\ Cardinality(Listed(files', last'.uid)) = 1]_vars

----------------------------------------------------------------------------
\* Properties of the lookups (checked under SpecLookup).

WasUnreadable(ev, uid) ==
    \E i \in 1..Len(ev) : ev[i].e = "unreadable" /\ ev[i].uid = uid

\* C11: GetContact(id) returns not-found and no error whenever no file
\* exists for id; it returns an error only when the file exists and cannot be
\* read or decoded; otherwise it returns the stored record.
C11_GetNotFoundIsNotAnError ==
    [][StoreOp("get") =>
          LET q == last'.uid
              broken == q \in DOMAIN files /\
                        (WasUnreadable(last'.ev, q) \/ ~DecodeOk(files[q]))
          IN /\ q \notin DOMAIN files =>
                   last'.card = NoCard /\ last'.err = ""
             /\ last'.err # "" <=> broken
             /\ last'.err # "" => last'.card = NoCard
             /\ (q \in DOMAIN files /\ ~broken) =>
                   /\ last'.card # NoCard
                   /\ last'.card = DecodeCard(files[q])
             /\ files' = files]_vars

\* GetContact missed in a directory that holds other records.
C11_Witness ==
    /\ last.op = "get" /\ last.err = "" /\ last.card = NoCard
    /\ last.uid \notin DOMAIN files
    /\ DOMAIN files # {}

\* The files of the directory that can be read and decoded, and whether the
\* whole directory can be listed.
Good(dir, ev) ==
    [u \in {v \in DOMAIN dir : ~WasUnreadable(ev, v) /\ DecodeOk(dir[v])}
        |-> dir[u]]
Listable(dir, ev) == DOMAIN Good(dir, ev) = DOMAIN dir

\* the first record of cards whose display name equals q, folded
FirstNamed(cards, q) ==
    LET m == {i \in 1..Len(cards) : EqualFold(CardFullName(cards[i]), q)}
    IN IF m = {} THEN NoCard
       ELSE cards[CHOOSE i \in m : \A j \in m : i <= j]

\* C12 as stated: ResolveContact(q) returns the record stored under
\* identifier q whenever one exists; when no file is stored under q it returns
\* the first record in enumeration order whose display name equals q
\* case-insensitively, and not-found without error when there is none.
C12_ResolveAsStated ==
    [][StoreOp("resolve") =>
          LET q == last'.uid
              good == Good(files, last'.ev)
          IN /\ q \in DOMAIN good =>
                   last'.err = "" /\ last'.card = DecodeCard(files[q])
             /\ q \notin DOMAIN files =>
                   /\ last'.err = ""
                   /\ last'.card = FirstNamed(ListContacts(good, {}).cards, q)]_vars

\* C12, amended: the record stored under q wins over any display name; when
\* no file is stored under q and the directory can be listed, the result is
\* the first record by display name or not-found without error; when some
\* file of the directory cannot be read or decoded, the fallback is an error.
C12_ResolveIdentifierFirst ==
    [][StoreOp("resolve") =>
          LET q == last'.uid
              good == Good(files, last'.ev)
          IN /\ q \in DOMAIN good =>
                   last'.err = "" /\ last'.card = DecodeCard(files[q])
             /\ (q \notin DOMAIN files /\ Listable(files, last'.ev)) =>
                   /\ last'.err = ""
                   /\ last'.card = FirstNamed(ListContacts(files, {}).cards, q)
             /\ (q \notin DOMAIN files /\ ~Listable(files, last'.ev)) =>
                   last'.err # "" /\ last'.card = NoCard
             /\ files' = files]_vars

\* ResolveContact returned the record stored under the query although another
\* record carries the query as display name.
C12_Witness ==
    /\ last.op = "resolve" /\ last.err = ""
    /\ last.uid \in DOMAIN files
    /\ last.card = DecodeCard(files[last.uid])
    /\ \E u \in DOMAIN files \ {last.uid} :
          /\ DecodeOk(files[u])
          /\ EqualFold(CardFullName(DecodeCard(files[u])), last.uid)

----------------------------------------------------------------------------
\* Properties of SyncContacts (checked under SpecSync).

RemoteIds == {CardUID(convertPeopleAPIToCard(p)) : p \in remote}
LocalWrites(ev) == {i \in 1..Len(ev) : ev[i].e = "local_write"}

\* the files of dir whose card carries identifier uid
FilesOf(dir, uid) ==
    {v \in DOMAIN dir : /\ GetContact(dir, v, {}).card # NoCard
                        /\ CardUID(GetContact(dir, v, {}).card) = uid}

\* C13: a successful SyncContacts leaves the local identifiers of before
\* plus the remote ones, so a second run with the same remote set leaves the
\* identifiers of the first; each remote identifier has exactly one local
\* record, and every record written by sync carries a last-synced stamp.
C13_SyncIdempotent ==
    [][(StoreOp("sync") /\ last'.err = "") =>
          /\ DOMAIN files' = DOMAIN files \cup RemoteIds
          /\ (last.op = "sync" /\ last.err = "") => DOMAIN files' = DOMAIN files
          /\ RemoteIds \subseteq DOMAIN files => DOMAIN files' = DOMAIN files
          /\ ListContacts(files', {}).err = "" =>
                Len(ListContacts(files', {}).cards)
                    = Cardinality(DOMAIN files \cup RemoteIds)
          /\ \A u \in RemoteIds :
                /\ Cardinality(FilesOf(files', u)) = 1
                /\ ListContacts(files', {}).err = "" =>
                      Cardinality(Listed(files', u)) = 1
                /\ GetContact(files', u, {}).err = ""
                /\ GetContact(files', u, {}).card.synced # 0
                /\ GetContact(files', u, {}).card.synced = now
          /\ \A i \in LocalWrites(last'.ev) :
                /\ GetContact(files', last'.ev[i].uid, {}).err = ""
                /\ GetContact(files', last'.ev[i].uid, {}).card.synced # 0]_vars

\* Two remote contacts were synced again at a later time: both writes
\* replaced a record an earlier sync had left, and two records are stored.
C13_Witness ==
    /\ last.op = "sync" /\ last.err = ""
    /\ Cardinality(RemoteIds) = 2
    /\ Cardinality(LocalWrites(last.ev)) = 2
    /\ \A i \in LocalWrites(last.ev) : last.ev[i].method = "replace_synced"
    /\ DOMAIN files = RemoteIds
    /\ \A u \in RemoteIds : GetContact(files, u, {}).card.synced = 2

\* C14: SyncContacts never removes or changes a local record whose
\* identifier is not in the remote set; a successful run leaves, for every
\* remote identifier, the remote version (whatever was stored before); it
\* sends nothing but list requests to the provider.
C14_SyncOneWayOverwrite ==
    [][StoreOp("sync") =>
          /\ DOMAIN files \subseteq DOMAIN files'
          /\ \A u \in DOMAIN files \ RemoteIds : files'[u] = files[u]
          /\ last'.err = "" =>
                \A p \in remote :
                    LET c == convertPeopleAPIToCard(p)
                        res == GetContact(files', CardUID(c), {})
                        got == res.card
                    IN /\ res.err = ""
                       /\ CardFullName(got) = CardFullName(c)
                       /\ got.etag = p.etag
                       /\ got.rev = 0
                       /\ got = SyncedCard(c, now)
          /\ \A i \in RequestEvents(last'.ev) : last'.ev[i].method = "list"
          /\ remote' = remote]_vars

\* A sync replaced a record that had been edited locally and left a record
\* that only exists locally.
C14_Witness ==
    /\ last.op = "sync" /\ last.err = ""
    /\ \E i \in LocalWrites(last.ev) : last.ev[i].method = "replace_edited"
    /\ DOMAIN files \ RemoteIds # {}

\* C15: the sync cursor is read when the provider is initialized, and after
\* every successful full fetch the cursor file holds the cursor the provider
\* issued.
FetchSucceeded == StoreOp("sync") /\ last'.err # "panic" /\ last'.err # "fetch"

C15_CursorRewrittenAfterFetch ==
    [][/\ (~config /\ config') => syncToken' = syncTokenFile
       /\ FetchSucceeded =>
             /\ syncTokenFile' = IssuedCursor
             /\ syncToken' = IssuedCursor]_vars

----------------------------------------------------------------------------
\* Properties of the store without provider (checked under SpecStore).

\* C16: with no provider configured, WriteContact and DeleteContact act on
\* the local store only and never fail for the provider's sake, and
\* SyncContacts returns without failing and leaves the local store unchanged.
C16_NoProviderSkips ==
    [][~provider =>
          /\ (StoreOp("write") \/ StoreOp("delete")) =>
                /\ RequestEvents(last'.ev) = {}
                /\ last'.perr = ""
                /\ last'.err \in {"", "marshal", "write", "remove", "not_found"}
          /\ StoreOp("sync") =>
                /\ last'.err = ""
                /\ files' = files]_vars

----------------------------------------------------------------------------
\* Properties of the provider's write (checked under SpecProvider) and of
\* the identifier heuristic (checked under SpecStore).

\* C17: the provider write sends a create request when the record has no
\* identifier, and an update keyed by the resource name of the record's
\* identifier when it has one, carrying the record's etag when one is stored.
C17_CreateWithoutIdUpdateWithId ==
    [][(StoreOp("provider_write") /\ last'.ev # <<>>) =>
          LET c == last'.card
              r == last'.ev[1]
          IN /\ CardUID(c) = <<>> => r.method = "createContact"
             /\ CardUID(c) # <<>> =>
                   /\ r.method = "updateContact"
                   /\ r.resource = People \o CardUID(c)
                   /\ c.etag # <<>> => r.etag = c.etag]_vars

\* The remote delete was called: it sent its request or failed before.
DeleteCalled(o) ==
    \/ o.perr # ""
    \/ \E i \in RequestEvents(o.ev) : o.ev[i].method = "deleteContact"

\* C18: with a provider configured, DeleteContact calls the remote delete if
\* and only if the identifier contains no "-", and a WriteContact that sends
\* its request sends an update if and only if the identifier contains no "-"
\* (a create otherwise); without a provider neither sends anything.
C18_SameHeuristic ==
    [][/\ StoreOp("delete") =>
             (DeleteCalled(last') <=> (provider /\ ~Contains(last'.uid, Dash)))
       /\ StoreOp("write") =>
             \A i \in RequestEvents(last'.ev) :
                /\ provider
                /\ last'.ev[i].uid = last'.uid
                /\ last'.ev[i].method \in {"updateContact", "createContact"}
                /\ last'.ev[i].method = "updateContact"
                      <=> ~Contains(last'.uid, Dash)]_vars

\* With a provider configured, a record with a local identifier was deleted
\* without any request, and one with a provider identifier only after its
\* remote delete.
C18_Witness ==
    /\ provider /\ last.op = "delete" /\ last.err = ""
    /\ Contains(last.uid, Dash)
    /\ last.uid \notin DOMAIN files
    /\ RequestEvents(last.ev) = {}
    /\ Len(last.ev) = 1

----------------------------------------------------------------------------
\* Properties of the paging loop of FetchContacts (checked under FairFetch).

\* the translated entries of the pages requested with toks, in that order
RECURSIVE CardsOfPages(_, _)
CardsOfPages(srv, toks) ==
    IF toks = <<>> THEN <<>>
    ELSE PageCards(srv[Head(toks)]) \o CardsOfPages(srv, Tail(toks))

\* following the cursors from tok reaches a page without cursor
RECURSIVE ReachesLastPage(_, _, _)
ReachesLastPage(srv, tok, n) ==
    IF srv[tok].next = 0 THEN TRUE
    ELSE IF n = 0 THEN FALSE
    ELSE ReachesLastPage(srv, srv[tok].next, n - 1)

PagingInOrder ==
    LET n == Len(fetch.sent)
        srv == fetch.server
    IN /\ \A k \in 1..n :
             fetch.sent[k] = IF k = 1 THEN 0 ELSE srv[fetch.sent[k - 1]].next
       /\ \A k \in 1..(n - 1) : srv[fetch.sent[k]].next # 0
       /\ (fetch.pc = "paging" /\ n > 0) =>
             /\ srv[fetch.sent[n]].next # 0
             /\ fetch.pageToken = srv[fetch.sent[n]].next
             /\ fetch.allCards = CardsOfPages(srv, fetch.sent)
       /\ fetch.pc = "done" =>
             /\ n > 0
             /\ srv[fetch.sent[n]].next = 0
             /\ fetch.allCards = CardsOfPages(srv, fetch.sent)

\* C19: FetchContacts sends its first request without cursor and each
\* further request with the cursor the page before returned, goes on exactly
\* while pages carry a cursor, returns the translated entries of all pages in
\* page order, and terminates whenever the cursors lead to a page without one.
C19_PagesUntilNoCursor ==
    /\ []PagingInOrder
    /\ (fetch.pc = "paging" /\ ReachesLastPage(fetch.server, 0, MaxPages))
          ~> (fetch.pc \in {"done", "failed"})

\* A listing of three pages, linked by two cursors, was fetched completely.
C19_Witness ==
    /\ fetch.pc = "done"
    /\ Len(fetch.sent) = 3
    /\ fetch.sent[2] # fetch.sent[3]
    /\ Len(fetch.allCards) = 4

----------------------------------------------------------------------------
\* Properties of the translation (checked under SpecConvert).

\* s is what follows the last "/" of r (all of r when it has none)
IsTrailingSegment(s, r) ==
    /\ ~Contains(s, Slash)
    /\ Len(s) <= Len(r)
    /\ SubSeq(r, Len(r) - Len(s) + 1, Len(r)) = s
    /\ Len(s) < Len(r) => r[Len(r) - Len(s)] = Slash

\* C20: for every provider contact, convertPeopleAPIToCard yields a record
\* whose identifier is the trailing path segment of the resource name and
\* whose display name is not empty: the first name entry's display name when
\* it has one, otherwise the identifier (so for a contact without name group).
C20_IdAndDisplayName ==
    last.op = "convert" =>
        LET person == last.ev[1]
            card == last.card
        IN /\ IsTrailingSegment(CardUID(card), person.resourceName)
           /\ CardFullName(card) # <<>>
           /\ (Len(person.names) > 0 /\ person.names[1] # <<>>) =>
                 CardFullName(card) = person.names[1]
           /\ (Len(person.names) = 0 \/ person.names[1] = <<>>) =>
                 CardFullName(card) = CardUID(card)
           /\ person.names = <<>> => CardFullName(card) = CardUID(card)

\* A contact with a path-style resource name and no name group was
\* translated: identifier and display name are the trailing segment.
C20_Witness ==
    /\ last.op = "convert"
    /\ last.ev[1].names = <<>>
    /\ Contains(last.ev[1].resourceName, Slash)
    /\ CardUID(last.card) # <<>>
    /\ CardFullName(last.card) = CardUID(last.card)

----------------------------------------------------------------------------
\* Properties of the translation functions (checked under SpecDates and the
\* specifications that follow it).

\* The eight characters YYYYMMDD of a date, and the six characters --MMDD.
IsFullDate(s, date) ==
    /\ Len(s) = 8 /\ \A i \in 1..8 : IsDigit(s[i])
    /\ ToNat(SubSeq(s, 1, 4)) = date.year
    /\ ToNat(SubSeq(s, 5, 6)) = date.month
    /\ ToNat(SubSeq(s, 7, 8)) = date.day
IsMonthDay(s, date) ==
    /\ Len(s) = 6 /\ s[1] = Dash /\ s[2] = Dash
    /\ \A i \in 3..6 : IsDigit(s[i])
    /\ ToNat(SubSeq(s, 3, 4)) = date.month
    /\ ToNat(SubSeq(s, 5, 6)) = date.day

\* C21: every date field (birthday, anniversary, other events) is encoded as
\* YYYYMMDD when year, month and day are present, as --MMDD when only month
\* and day are present, and is dropped when it lacks a month or a day.
C21_DateEncoding ==
    last.op = "date" =>
        LET e == last.ev[1]
            d == e.date
        IN /\ (d.year > 0 /\ d.month > 0 /\ d.day > 0)
                => IsFullDate(e.value, d)
           /\ (d.year = 0 /\ d.month > 0 /\ d.day > 0)
                => IsMonthDay(e.value, d)
           /\ (d.month = 0 \/ d.day = 0) => e.value = <<>>

\* The date triples convertPeopleAPIToCard renders: all three parts
\* positive, or month and day positive with no year.
Rendered(d) == d.month > 0 /\ d.day > 0 /\ d.year >= 0

\* A date of the calendar with a year of at most four digits (a date without
\* year is read in year 0).
IsCalendarDate(d) ==
    /\ d.year \in 0..9999
    /\ d.month \in 1..12
    /\ d.day \in 1..DaysIn(d.year, d.month)

\* C22 as stated: for every date triple that is rendered (year, month and day
\* positive, or month and day positive with no year), parseDateValue of the
\* encoded string returns the same triple, with year 0 for a month/day-only
\* date.
C22_DateRoundTripAsStated ==
    (last.op = "date" /\ Rendered(last.ev[1].date)) =>
        last.ev[1].parsed = last.ev[1].date

\* C22 (amended): for every rendered date triple that is a date of the
\* calendar with a year of at most four digits, parseDateValue of the encoded
\* string returns the same triple, with year 0 for a month/day-only date.
C22_DateRoundTrip ==
    (/\ last.op = "date"
     /\ Rendered(last.ev[1].date)
     /\ IsCalendarDate(last.ev[1].date)) =>
        /\ last.ev[1].value # <<>>
        /\ last.ev[1].parsed = last.ev[1].date

\* A birthday on 29 February without year has been rendered as --0229 and
\* read back.
C22_Witness ==
    /\ last.op = "date" /\ last.ev[1].kind = "birthday"
    /\ last.ev[1].date = Date(0, 2, 29)
    /\ last.ev[1].value = <<Dash, Dash, "0", "2", "2", "9">>
    /\ last.ev[1].parsed = Date(0, 2, 29)

\* C23: for every provider address, the address of the payload obtained from
\* its ADR value has the seven components, each equal to the original one,
\* empty components kept in place.
C23_AddressRoundTrip ==
    last.op = "address" =>
        /\ DOMAIN last.ev[1].payload = {Components[i] : i \in 1..7}
        /\ \A i \in 1..7 :
             last.ev[1].payload[Components[i]]
                 = last.ev[1].address[Components[i]]

\* The groups of a provider contact that are populated.
Populated(person) == {g \in Groups : person[g] # <<>>}

\* C24 as stated: every populated group among name, phones, emails,
\* addresses, organization, birthday, biography, URLs of a provider contact
\* is in the payload obtained from its card.
C24_GroupsKeptAsStated ==
    last.op = "roundtrip" =>
        Populated(last.ev[1].person) \subseteq DOMAIN last.ev[1].payload

\* An organization with a name, a department or a title; a first birthday
\* with month and day that is a date of the calendar.
HasOrgText(person) ==
    /\ person.organizations # <<>>
    /\ \/ person.organizations[1].name # <<>>
       \/ person.organizations[1].department # <<>>
       \/ person.organizations[1].title # <<>>
HasBirthDate(person) ==
    /\ person.birthdays # <<>>
    /\ Rendered(person.birthdays[1])
    /\ IsCalendarDate(person.birthdays[1])

\* C24 (amended): the payload has the name group, every one of the phones,
\* emails, addresses, biography and URL groups that the provider contact has,
\* the organization group when the first organization has a name, a
\* department or a title, and the birthday group when the first birthday has
\* a month and a day and is a date of the calendar.
C24_GroupsKept ==
    last.op = "roundtrip" =>
        LET p == last.ev[1].person
            out == DOMAIN last.ev[1].payload
        IN /\ "names" \in out
           /\ \A g \in ListGroups : p[g] # <<>> => g \in out
           /\ HasOrgText(p) => "organizations" \in out
           /\ HasBirthDate(p) => "birthdays" \in out

\* A contact with every group populated, the organization with a title only,
\* has come back with all eight groups.
C24_Witness ==
    /\ last.op = "roundtrip"
    /\ Populated(last.ev[1].person) = Groups
    /\ last.ev[1].person.organizations[1].name = <<>>
    /\ last.ev[1].person.organizations[1].title # <<>>
    /\ DOMAIN last.ev[1].payload = Groups

\* The pairs of a contact with their kind, and the pairs whose value is among
\* the fields of the card under extension key k.
PairsOf(person) ==
    {[kind |-> "userDefined", pair |-> person.userDefined[i]] :
        i \in 1..Len(person.userDefined)}
    \cup {[kind |-> "clientData", pair |-> person.clientData[i]] :
             i \in 1..Len(person.clientData)}
PairsUnder(person, card, k) ==
    {p \in PairsOf(person) :
        \E i \in 1..Len(card[k]) : card[k][i] = p.pair.value}

\* C25: pairs with distinct keys are stored under distinct extension keys: no
\* extension key of the card holds the values of two pairs whose keys (or
\* kinds) differ.
C25_DistinctKeysDistinctFields ==
    last.op = "userdefined" =>
        \A k \in DOMAIN last.ev[1].card :
            \A p, q \in PairsUnder(last.ev[1].person, last.ev[1].card, k) :
                p.kind = q.kind /\ p.pair.key = q.pair.key

----------------------------------------------------------------------------
\* Properties of the record accessors (checked under SpecPhones).

\* The spellings of "cell" and "mobile" among the types of the model.
MobileOrCell ==
    {<<"c", "e", "l", "l">>, <<"C", "E", "L", "L">>,
     <<"m", "o", "b", "i", "l", "e">>, <<"M", "o", "b", "i", "l", "e">>}

\* C26: PrimaryPhone returns the value of the first phone entry whose type
\* is mobile or cell in any case, wherever it stands; the value of the first
\* entry when no entry has such a type; the empty string when there are no
\* entries.
C26_PrimaryPhone ==
    last.op = "phone" =>
        LET f == last.ev[1].fields
            r == last.ev[1].result
            hits == {i \in 1..Len(f) : f[i].type \in MobileOrCell}
        IN /\ f = <<>> => r = <<>>
           /\ hits # {} =>
                \E i \in hits : r = f[i].value /\ \A j \in hits : i <= j
           /\ (f # <<>> /\ hits = {}) => r = f[1].value

\* Of two phones typed home and Mobile, the second has been returned.
C26_Witness ==
    /\ last.op = "phone"
    /\ Len(last.ev[1].fields) = 2
    /\ last.ev[1].fields[1].type = <<"h", "o", "m", "e">>
    /\ last.ev[1].fields[2].type = <<"M", "o", "b", "i", "l", "e">>
    /\ last.ev[1].result = last.ev[1].fields[2].value
    /\ last.ev[1].result # last.ev[1].fields[1].value

----------------------------------------------------------------------------
\* Further properties of the contact store (checked under SpecStore and the
\* specifications named with them).

\* C27: a DeleteContact that reports "contact not found" has sent no remote
\* delete for that identifier.
C27_NotFoundDeletesNothingRemote ==
    (last.op = "delete" /\ last.err = "not_found") =>
        \A i \in RequestEvents(last.ev) :
            ~(last.ev[i].method = "deleteContact" /\ last.ev[i].uid = last.uid)

\* The createContact requests among the events of an operation.
Creates(ev) == {i \in RequestEvents(ev) : ev[i].method = "createContact"}

\* C29: with a provider configured, a record with a locally generated
\* identifier that a successful WriteContact has created at the provider is
\* not created there again by the next WriteContact of the same record.
C29_CreatedAtMostOnce ==
    [][(/\ provider
        /\ last.op = "write" /\ last.err = "" /\ Contains(last.uid, Dash)
        /\ Creates(last.ev) # {}
        /\ StoreOp("write") /\ last'.uid = last.uid)
          => Creates(last'.ev) = {}]_vars

----------------------------------------------------------------------------
\* Further properties of the authorization flow (checked under FairDenied).

\* C28: in a flow whose caller takes one value from the result channel, every
\* callback handler that has come to its send finishes, and the cancellation
\* watcher, once woken, finishes: no goroutine stays blocked on the channel.
Blocked ==
    \/ \E i \in 1..Len(handlers) : handlers[i].pc = "send"
    \/ watcher = "shutdown"
    \/ srvSend
C28_NoSenderBlocksForever == Blocked ~> ~Blocked

\* C30: when the remote fetch fails (provider not authenticated, refresh
\* failure, credentials not persisted, a failed, non-200 or undecodable page
\* request on any page), SyncContacts returns an error and no local file is
\* created or changed; local files change only after a fetch that succeeded.
C30_FetchFailureWritesNothing ==
    [][/\ (StoreOp("sync") /\ fetch.pc = "failed")
            => (last'.err # "" /\ files' = files)
       /\ files' # files => (StoreOp("sync") /\ fetch.pc = "done")]_vars

\* The second page request of a fetch failed after the first page had been
\* received; the sync returned the error and the stored records are there.
C30_Witness ==
    /\ last.op = "sync" /\ last.err = "fetch"
    /\ last.ev[1].pc = "failed" /\ Len(last.ev[1].sent) = 2
    /\ DOMAIN files = {IdC2, IdL}

====
